---- MODULE Spec2Model ----
(***************************************************************************)
(* Model of lib/cap.c of intel-cmt-cat: the library life cycle             *)
(* (pqos_init, pqos_fini, pqos_cap_get), the API lock                      *)
(* (_pqos_api_init/_exit/_lock/_unlock) and capability discovery           *)
(* (discover_capabilities).                                                *)
(*                                                                         *)
(* Every entry point is one action that runs the whole C function on the   *)
(* module's static variables.  The answers of the collaborators that live  *)
(* outside cap.c (log, cpuinfo, machine, os_cap, utils, api, allocation,   *)
(* monitoring, libc, pthread) are inputs of the call, drawn from small     *)
(* sets; a collaborator that is never reached keeps its default answer.    *)
(***************************************************************************)
EXTENDS Integers, Sequences, FiniteSets, TLC

(***************************************************************************)
(* Return codes (pqos.h) and the values cap.c compares them with.          *)
(***************************************************************************)
PQOS_RETVAL_OK == 0
PQOS_RETVAL_ERROR == 1
PQOS_RETVAL_PARAM == 2
PQOS_RETVAL_RESOURCE == 3
PQOS_RETVAL_INIT == 4
PQOS_RETVAL_BUSY == 7

\* enum pqos_interface, as listed in the comment above m_interface
PQOS_INTER_MSR == 0
PQOS_INTER_OS == 1
PQOS_INTER_OS_RESCTRL_MON == 2

\* enum pqos_cap_type tags of the registry records
PQOS_CAP_TYPE_MON == "PQOS_CAP_TYPE_MON"
PQOS_CAP_TYPE_L3CA == "PQOS_CAP_TYPE_L3CA"
PQOS_CAP_TYPE_L2CA == "PQOS_CAP_TYPE_L2CA"
PQOS_CAP_TYPE_MBA == "PQOS_CAP_TYPE_MBA"

(***************************************************************************)
(* Pointers: NULL is the empty sequence, a valid pointer is the one-element *)
(* sequence holding the object it points to.                               *)
(***************************************************************************)
NULL == <<>>
Ptr(x) == <<x>>
Deref(p) == p[1]

(***************************************************************************)
(* Bounds of the model.                                                    *)
(***************************************************************************)
\* lowest descriptor number open() can hand out
FirstFd == 3
\* number of descriptor numbers the process may use for the lock file
MaxFds == 2

Fds == FirstFd .. (FirstFd + MaxFds - 1)

(***************************************************************************)
(* The module's static variables, and what they stand on in the process    *)
(* and in the collaborating modules.                                       *)
(***************************************************************************)
VARIABLES
  m_cap,            \* static struct pqos_cap *m_cap
  m_cpu,            \* static const struct pqos_cpuinfo *m_cpu
  m_init_done,      \* static int m_init_done
  m_apilock,        \* static int m_apilock (descriptor of LOCKFILE, or -1)
  m_apilock_mutex,  \* static pthread_mutex_t: "invalid", "unlocked", "locked"
  m_interface,      \* static int m_interface
  lock_fds,         \* descriptors of LOCKFILE this process holds open
  lockf_held,       \* the process holds the lockf() lock on LOCKFILE
  comp,             \* which collaborating modules are initialised
  heap,             \* heap blocks of the registry (descriptors, struct pqos_cap) not yet freed
  last,             \* the last call: name, arguments, state before, result, calls made
  proc,             \* several processes: the static variables of each
  thr,              \* their threads: where each is in the call it is making
  hw,               \* the platform: what CPUID, the MSRs and the OS answer
  hooks             \* the last call of a mutation hook, and the run it is part of

vars == <<m_cap, m_cpu, m_init_done, m_apilock, m_apilock_mutex, m_interface,
          lock_fds, lockf_held, comp, heap, last, proc, thr, hw, hooks>>

\* The variables a call works on, as one record; trace collects the calls it
\* makes and dc the result of its discover_capabilities(), if it got that far.
Globals == [m_cap |-> m_cap, m_cpu |-> m_cpu, m_init_done |-> m_init_done,
            m_apilock |-> m_apilock, m_apilock_mutex |-> m_apilock_mutex,
            m_interface |-> m_interface, lock_fds |-> lock_fds,
            lockf_held |-> lockf_held, comp |-> comp, heap |-> heap,
            trace |-> <<>>, dc |-> NULL]

\* One call of a collaborator (or of a logged lock step) with its return value.
Called(g, name, ret) ==
  [g EXCEPT !.trace = Append(@, [call |-> name, ret |-> ret])]

\* A collaborator's init or fini: the call, and the module coming up or going down.
CompCall(g, name, ret, c, up) ==
  [Called(g, name, ret) EXCEPT !.comp = [@ EXCEPT ![c] = up]]

(***************************************************************************)
(* libc and pthread, as far as cap.c uses them.                            *)
(***************************************************************************)
\* open(LOCKFILE, O_WRONLY | O_CREAT, ...): the lowest free descriptor, or -1
open(g, ok) ==
  LET free == Fds \ g.lock_fds IN
  IF ok /\ free # {}
  THEN LET fd == CHOOSE f \in free : \A h \in free : f <= h
       IN [g |-> [g EXCEPT !.lock_fds = @ \cup {fd}], ret |-> fd]
  ELSE [g |-> g, ret |-> -1]

\* close(fd): a bad descriptor fails; closing any descriptor of the file drops
\* the process's lockf() lock on it; the descriptor is gone even when close
\* reports an error
close(g, fd, ok) ==
  IF fd \in g.lock_fds
  THEN [g |-> [g EXCEPT !.lock_fds = @ \ {fd}, !.lockf_held = FALSE],
        ret |-> IF ok THEN 0 ELSE -1]
  ELSE [g |-> g, ret |-> -1]

\* lockf(fd, F_LOCK, 0)
lockf_lock(g, fd, ok) ==
  IF fd \in g.lock_fds /\ ok
  THEN [g |-> [g EXCEPT !.lockf_held = TRUE], ret |-> 0]
  ELSE [g |-> g, ret |-> -1]

\* lockf(fd, F_ULOCK, 0)
lockf_unlock(g, fd) ==
  IF fd \in g.lock_fds
  THEN [g |-> [g EXCEPT !.lockf_held = FALSE], ret |-> 0]
  ELSE [g |-> g, ret |-> -1]

\* pthread_mutex_init(&m, NULL)
pthread_mutex_init(g, ok) ==
  IF ok THEN [g |-> [g EXCEPT !.m_apilock_mutex = "unlocked"], ret |-> 0]
        ELSE [g |-> g, ret |-> 1]

\* pthread_mutex_lock(&m).  On a mutex that was never initialised or was
\* destroyed the behaviour is undefined: it locks or it fails, as `ok` says.
pthread_mutex_lock(g, ok) ==
  IF ok /\ g.m_apilock_mutex # "locked"
  THEN [g |-> [g EXCEPT !.m_apilock_mutex = "locked"], ret |-> 0]
  ELSE [g |-> g, ret |-> 1]

\* pthread_mutex_unlock(&m)
pthread_mutex_unlock(g) ==
  IF g.m_apilock_mutex = "locked"
  THEN [g |-> [g EXCEPT !.m_apilock_mutex = "unlocked"], ret |-> 0]
  ELSE [g |-> g, ret |-> 1]

\* pthread_mutex_destroy(&m): an unlocked mutex is destroyed, a locked one is
\* busy and stays; on a mutex that is not initialised the behaviour is
\* undefined and the return value is what `ok` says
pthread_mutex_destroy(g, ok) ==
  CASE g.m_apilock_mutex = "unlocked" ->
         [g |-> [g EXCEPT !.m_apilock_mutex = "invalid"], ret |-> 0]
    [] g.m_apilock_mutex = "locked" -> [g |-> g, ret |-> 1]
    [] OTHER -> [g |-> g, ret |-> IF ok THEN 0 ELSE 1]

(***************************************************************************)
(* Functions for safe multi-threading.                                     *)
(***************************************************************************)
\* _pqos_api_init without its `m_apilock != -1` guard
_pqos_api_init_unguarded(g, in) ==
  LET o == open(g, in.open_ok)
      g1 == [o.g EXCEPT !.m_apilock = o.ret]
  IN IF g1.m_apilock = -1 THEN [g |-> g1, ret |-> -1]
     ELSE [g |-> pthread_mutex_init(g1, TRUE).g, ret |-> 0]

_pqos_api_init(g, in) ==
  IF g.m_apilock # -1 THEN [g |-> g, ret |-> -1]
  ELSE LET o == open(g, in.open_ok)
           g1 == [o.g EXCEPT !.m_apilock = o.ret]
       IN IF g1.m_apilock = -1 THEN [g |-> g1, ret |-> -1]
          ELSE LET mi == pthread_mutex_init(g1, in.mutex_init_ok)
               IN IF mi.ret # 0
                  THEN [g |-> [close(mi.g, mi.g.m_apilock, TRUE).g
                                 EXCEPT !.m_apilock = -1],
                        ret |-> -1]
                  ELSE [g |-> mi.g, ret |-> 0]

\* _pqos_api_exit() that leaves the handle in m_apilock
_pqos_api_exit_keeps_handle(g, in) ==
  LET c == close(g, g.m_apilock, in.close_ok)
      d == pthread_mutex_destroy(c.g, in.destroy_ok)
  IN [g |-> d.g,
      ret |-> IF c.ret # 0 \/ d.ret # 0 THEN -1 ELSE 0]

_pqos_api_exit(g, in) ==
  LET c == close(g, g.m_apilock, in.close_ok)
      d == pthread_mutex_destroy(c.g, in.destroy_ok)
  IN [g |-> [d.g EXCEPT !.m_apilock = -1],
      ret |-> IF c.ret # 0 \/ d.ret # 0 THEN -1 ELSE 0]

_pqos_api_lock(g, in) ==
  LET f == lockf_lock(g, g.m_apilock, in.lockf_ok)
      m == pthread_mutex_lock(f.g, in.mutex_lock_ok)
      err == IF f.ret # 0 \/ m.ret # 0 THEN 1 ELSE 0
  IN Called(m.g, "_pqos_api_lock", err)

_pqos_api_unlock(g) ==
  LET f == lockf_unlock(g, g.m_apilock)
      m == pthread_mutex_unlock(f.g)
  IN m.g

\* _pqos_check_init answering "not initialised" with the generic error code
_pqos_check_init_generic(g, expect) ==
  IF g.m_init_done # 0 /\ expect = 0 THEN PQOS_RETVAL_INIT
  ELSE IF g.m_init_done = 0 /\ expect # 0 THEN PQOS_RETVAL_ERROR
  ELSE PQOS_RETVAL_OK

_pqos_check_init(g, expect) ==
  IF g.m_init_done # 0 /\ expect = 0 THEN PQOS_RETVAL_INIT
  ELSE IF g.m_init_done = 0 /\ expect # 0 THEN PQOS_RETVAL_INIT
  ELSE PQOS_RETVAL_OK

(***************************************************************************)
(* Capability discovery.  Each of the four probes answers with a return    *)
(* code and, on PQOS_RETVAL_OK only, a freshly allocated descriptor.       *)
(***************************************************************************)
\* Name of the probe discover_capabilities calls for a resource under `inter`
ProbeName(field, inter) ==
  IF inter = PQOS_INTER_MSR
  THEN CASE field = "mon" -> "discover_monitoring"
         [] field = "l3ca" -> "discover_alloc_l3"
         [] field = "l2ca" -> "discover_alloc_l2"
         [] OTHER -> "discover_alloc_mba"
  ELSE CASE field = "mon" -> "os_cap_mon_discover"
         [] field = "l3ca" -> "os_cap_l3ca_discover"
         [] field = "l2ca" -> "os_cap_l2ca_discover"
         [] OTHER -> "os_cap_mba_discover"

\* The locals of discover_capabilities at its start: det_mon .. det_mba (det),
\* sz in units of sizeof(struct pqos_capability), ret, the capabilities[] of
\* _cap once it is allocated
DiscoverLocals ==
  [det |-> [mon |-> NULL, l3ca |-> NULL, l2ca |-> NULL, mba |-> NULL],
   sz |-> 0, ret |-> PQOS_RETVAL_OK, calls |-> <<>>, failed |-> FALSE,
   cap |-> <<>>, allocated |-> FALSE]

\* ProbeStep whose default case sets ret but does not leave for error_exit
ProbeStep_goes_on(d, field, inter, out) ==
  IF d.failed THEN d
  ELSE LET d1 == [d EXCEPT !.calls = Append(@, [call |-> ProbeName(field, inter),
                                                ret |-> out.ret]),
                           !.det[field] = out.det,
                           !.ret = out.ret]
       IN CASE out.ret = PQOS_RETVAL_OK -> [d1 EXCEPT !.sz = @ + 1]
            [] out.ret = PQOS_RETVAL_RESOURCE -> d1
            [] OTHER -> [d1 EXCEPT !.ret = PQOS_RETVAL_ERROR]

\* One probe and the switch on its return code; d holds the function's locals
\* (failed: the switch took `goto error_exit`).
ProbeStep(d, field, inter, out) ==
  IF d.failed THEN d
  ELSE LET d1 == [d EXCEPT !.calls = Append(@, [call |-> ProbeName(field, inter),
                                                ret |-> out.ret]),
                           !.det[field] = out.det,
                           !.ret = out.ret]
       IN CASE out.ret = PQOS_RETVAL_OK -> [d1 EXCEPT !.sz = @ + 1]
            [] out.ret = PQOS_RETVAL_RESOURCE -> d1
            [] OTHER -> [d1 EXCEPT !.ret = PQOS_RETVAL_ERROR, !.failed = TRUE]

\* `if (det_x != NULL) { capabilities[num_cap] = ...; num_cap++; ret = OK; }`
AddCapability(d, field, type) ==
  IF d.det[field] # NULL
  THEN [d EXCEPT !.cap = Append(@, [type |-> type, u |-> Deref(d.det[field])]),
                 !.ret = PQOS_RETVAL_OK]
  ELSE d

\* The descriptors and the registry the function holds at error_exit
NumBlocks(d) ==
  Cardinality({f \in {"mon", "l3ca", "l2ca", "mba"} : d.det[f] # NULL})
  + (IF d.allocated THEN 1 ELSE 0)

\* error_exit: on a failure everything allocated so far is freed
ErrorExit(d, written) ==
  [ret |-> d.ret,
   written |-> written,
   p_cap |-> IF written THEN Ptr([num_cap |-> Len(d.cap), capabilities |-> d.cap])
             ELSE NULL,
   calls |-> d.calls,
   produced |-> NumBlocks(d),
   freed |-> IF d.ret # PQOS_RETVAL_OK THEN NumBlocks(d) ELSE 0]

\* The MBA CTRL status query under the OS interfaces, then `(*p_cap) = _cap`;
\* c holds the locals once capabilities[] is filled
discover_fill(c, in, inter) ==
  IF c.det.mba # NULL /\ inter \in {PQOS_INTER_OS, PQOS_INTER_OS_RESCTRL_MON}
  THEN ErrorExit([c EXCEPT !.ret = in.mba_ctrl.ret,
                           !.calls = Append(@, [call |-> "os_cap_get_mba_ctrl",
                                                ret |-> in.mba_ctrl.ret]),
                           !.cap[Len(c.cap)].u.ctrl = in.mba_ctrl.ctrl,
                           !.cap[Len(c.cap)].u.ctrl_on = in.mba_ctrl.ctrl_on],
                 in.mba_ctrl.ret = PQOS_RETVAL_OK)
  ELSE ErrorExit(c, TRUE)

\* discover_build that stores the L2 record before the L3 record
discover_build_l2_first(d, in, inter) ==
  IF d.failed THEN ErrorExit(d, FALSE)
  ELSE IF d.sz = 0 THEN ErrorExit([d EXCEPT !.ret = PQOS_RETVAL_ERROR], FALSE)
  ELSE IF ~in.malloc_ok THEN ErrorExit([d EXCEPT !.ret = PQOS_RETVAL_ERROR], FALSE)
  ELSE discover_fill(
         AddCapability(AddCapability(AddCapability(AddCapability(
           [d EXCEPT !.allocated = TRUE],
           "mon", PQOS_CAP_TYPE_MON), "l2ca", PQOS_CAP_TYPE_L2CA),
           "l3ca", PQOS_CAP_TYPE_L3CA), "mba", PQOS_CAP_TYPE_MBA),
         in, inter)

\* discover_build without the `sz == 0` check
discover_build_no_empty_check(d, in, inter) ==
  IF d.failed THEN ErrorExit(d, FALSE)
  ELSE IF ~in.malloc_ok THEN ErrorExit([d EXCEPT !.ret = PQOS_RETVAL_ERROR], FALSE)
  ELSE discover_fill(
         AddCapability(AddCapability(AddCapability(AddCapability(
           [d EXCEPT !.allocated = TRUE],
           "mon", PQOS_CAP_TYPE_MON), "l3ca", PQOS_CAP_TYPE_L3CA),
           "l2ca", PQOS_CAP_TYPE_L2CA), "mba", PQOS_CAP_TYPE_MBA),
         in, inter)

\* discover_capabilities from `if (sz == 0)` on: d holds the locals after the
\* four probes
discover_build(d, in, inter) ==
  IF d.failed THEN ErrorExit(d, FALSE)
  ELSE IF d.sz = 0 THEN ErrorExit([d EXCEPT !.ret = PQOS_RETVAL_ERROR], FALSE)
  ELSE IF ~in.malloc_ok THEN ErrorExit([d EXCEPT !.ret = PQOS_RETVAL_ERROR], FALSE)
  ELSE discover_fill(
         AddCapability(AddCapability(AddCapability(AddCapability(
           [d EXCEPT !.allocated = TRUE],
           "mon", PQOS_CAP_TYPE_MON), "l3ca", PQOS_CAP_TYPE_L3CA),
           "l2ca", PQOS_CAP_TYPE_L2CA), "mba", PQOS_CAP_TYPE_MBA),
         in, inter)

\* discover_capabilities(p_cap, cpu, inter).  The result says whether *p_cap was
\* written and with what, which probes were called, and how many heap blocks
\* the call produced and freed.
discover_capabilities(in, inter) ==
  IF inter \notin {PQOS_INTER_MSR, PQOS_INTER_OS, PQOS_INTER_OS_RESCTRL_MON}
  THEN ErrorExit([DiscoverLocals EXCEPT !.ret = PQOS_RETVAL_PARAM], FALSE)
  ELSE discover_build(
         ProbeStep(ProbeStep(ProbeStep(ProbeStep(DiscoverLocals,
           "mon", inter, in.mon), "l3ca", inter, in.l3ca),
           "l2ca", inter, in.l2ca), "mba", inter, in.mba),
         in, inter)

(***************************************************************************)
(* strncasecmp() on strings given as sequences of characters.              *)
(***************************************************************************)
tolower(c) ==
  CASE c = "O" -> "o" [] c = "S" -> "s" [] c = "M" -> "m" [] c = "R" -> "r"
    [] c = "X" -> "x" [] OTHER -> c

\* character i of a C string: past the end it reads the terminating NUL
CharAt(str, i) == IF i <= Len(str) THEN str[i] ELSE "NUL"

RECURSIVE strncasecmp_from(_, _, _, _)
strncasecmp_from(a, b, n, i) ==
  IF i > n THEN 0
  ELSE IF tolower(CharAt(a, i)) # tolower(CharAt(b, i)) THEN 1
  ELSE IF CharAt(a, i) = "NUL" THEN 0
  ELSE strncasecmp_from(a, b, n, i + 1)

strncasecmp(a, b, n) == strncasecmp_from(a, b, n, 1)

(***************************************************************************)
(* initialize and shutdown                                                 *)
(***************************************************************************)
\* The RDT_IFACE check of pqos_init: TRUE when the call is refused
rdt_iface_mismatch(environment, interface) ==
  IF environment = NULL THEN FALSE
  ELSE IF strncasecmp(Deref(environment), <<"O", "S">>, 2) = 0
       THEN interface # PQOS_INTER_OS
  ELSE IF strncasecmp(Deref(environment), <<"M", "S", "R">>, 3) = 0
       THEN interface # PQOS_INTER_MSR
  ELSE TRUE

\* free() of every record of *m_cap and of m_cap itself
free_cap(g) ==
  [g EXCEPT !.heap = @ - (Deref(g.m_cap).num_cap + 1)]

\* pqos_init, stage by stage from log_init() down to the check that something
\* was initialised.  Each stage ends the body with the return code and the
\* unwinding label it jumps to, or goes on to the next stage (falling through
\* to machine_init_error at the end).
pqos_init_mon(g, in, cat_init) ==
  LET g1 == CompCall(g, "pqos_mon_init", in.mon_ret, "mon",
                     g.comp.mon \/ in.mon_ret = PQOS_RETVAL_OK)
      mon_init == IF in.mon_ret = PQOS_RETVAL_OK THEN 1 ELSE 0
      ret == IF in.mon_ret = PQOS_RETVAL_RESOURCE THEN PQOS_RETVAL_OK ELSE in.mon_ret
  IN [g |-> g1,
      ret |-> IF cat_init = 0 /\ mon_init = 0 THEN PQOS_RETVAL_ERROR ELSE ret,
      label |-> "machine_init_error"]

pqos_init_alloc(g, in) ==
  LET g1 == CompCall(g, "pqos_alloc_init", in.alloc_ret, "alloc",
                     g.comp.alloc \/ in.alloc_ret = PQOS_RETVAL_OK)
  IN IF in.alloc_ret = PQOS_RETVAL_BUSY
     THEN [g |-> g1, ret |-> in.alloc_ret, label |-> "machine_init_error"]
     ELSE pqos_init_mon(g1, in, IF in.alloc_ret = PQOS_RETVAL_OK THEN 1 ELSE 0)

pqos_init_api(g, in) ==
  LET g1 == Called(g, "api_init", in.api_ret)
  IN IF in.api_ret # PQOS_RETVAL_OK
     THEN [g |-> g1, ret |-> in.api_ret, label |-> "machine_init_error"]
     ELSE pqos_init_alloc([g1 EXCEPT !.m_interface = Deref(in.config).interface], in)

pqos_init_utils(g, in) ==
  LET g1 == Called(g, "_pqos_utils_init", in.utils_ret)
  IN IF in.utils_ret # PQOS_RETVAL_OK
     THEN [g |-> g1, ret |-> in.utils_ret, label |-> "machine_init_error"]
     ELSE pqos_init_api(g1, in)

\* `ret = discover_capabilities(&m_cap, m_cpu, config->interface)`, dc being
\* what the function did
pqos_init_discovered(g, in, dc) ==
  LET g1 == [g EXCEPT !.trace = @ \o dc.calls,
                      !.dc = Ptr(dc),
                      !.heap = @ + dc.produced - dc.freed,
                      !.m_cap = IF dc.written THEN dc.p_cap ELSE @]
  IN IF dc.ret # PQOS_RETVAL_OK
     THEN [g |-> g1, ret |-> dc.ret, label |-> "machine_init_error"]
     ELSE pqos_init_utils(g1, in)

pqos_init_discover(g, in) ==
  pqos_init_discovered(g, in, discover_capabilities(in, Deref(in.config).interface))

pqos_init_os_cap(g, in) ==
  IF Deref(in.config).interface \in {PQOS_INTER_OS, PQOS_INTER_OS_RESCTRL_MON}
  THEN LET g1 == Called(g, "os_cap_init", in.os_cap_init_ret)
       IN IF in.os_cap_init_ret # PQOS_RETVAL_OK
          THEN [g |-> g1, ret |-> in.os_cap_init_ret, label |-> "machine_init_error"]
          ELSE pqos_init_discover(g1, in)
  ELSE pqos_init_discover(g, in)

pqos_init_machine(g, in) ==
  LET g1 == CompCall(g, "machine_init", in.machine_init_ret, "machine",
                     in.machine_init_ret = PQOS_RETVAL_OK)
  IN IF in.machine_init_ret # PQOS_RETVAL_OK
     THEN [g |-> g1, ret |-> in.machine_init_ret, label |-> "cpuinfo_init_error"]
     ELSE pqos_init_os_cap(g1, in)

pqos_init_cpuinfo(g, in) ==
  LET g1 == [CompCall(g, "cpuinfo_init", in.cpuinfo.ret, "cpuinfo",
                      in.cpuinfo.ret = 0) EXCEPT !.m_cpu = in.cpuinfo.cpu]
  IN IF in.cpuinfo.ret # 0 \/ g1.m_cpu = NULL
     THEN [g |-> g1, ret |-> PQOS_RETVAL_ERROR, label |-> "log_init_error"]
     ELSE pqos_init_machine(g1, in)

pqos_init_body(g, in) ==
  LET g1 == CompCall(g, "log_init", in.log_init_ret, "log",
                     in.log_init_ret = PQOS_RETVAL_OK)
  IN IF in.log_init_ret # PQOS_RETVAL_OK
     THEN [g |-> g1, ret |-> in.log_init_ret, label |-> "init_error"]
     ELSE pqos_init_cpuinfo(g1, in)

\* The labels machine_init_error, cpuinfo_init_error and log_init_error
unwind_machine(g, in, ret, label) ==
  IF ret # PQOS_RETVAL_OK /\ label = "machine_init_error"
  THEN CompCall(g, "machine_fini", in.machine_fini_ret, "machine", FALSE)
  ELSE g

unwind_cpuinfo(g, in, ret, label) ==
  IF ret # PQOS_RETVAL_OK /\ label \in {"machine_init_error", "cpuinfo_init_error"}
  THEN CompCall(g, "cpuinfo_fini", in.cpuinfo_fini_ret, "cpuinfo", FALSE)
  ELSE g

unwind_log(g, in, ret, label) ==
  IF ret # PQOS_RETVAL_OK /\ label \in {"machine_init_error", "cpuinfo_init_error",
                                         "log_init_error"}
  THEN CompCall(g, "log_fini", in.log_fini_ret, "log", FALSE)
  ELSE g

\* init_error without `m_cpu = NULL`
unwind_init_keeps_cpu(g, ret) ==
  IF ret # PQOS_RETVAL_OK
  THEN [(IF g.m_cap # NULL THEN free_cap(g) ELSE g) EXCEPT !.m_cap = NULL]
  ELSE [g EXCEPT !.m_init_done = 1]

\* The label init_error and the setting of m_init_done
unwind_init(g, ret) ==
  IF ret # PQOS_RETVAL_OK
  THEN [(IF g.m_cap # NULL THEN free_cap(g) ELSE g)
          EXCEPT !.m_cpu = NULL, !.m_cap = NULL]
  ELSE [g EXCEPT !.m_init_done = 1]

\* pqos_init from the label machine_init_error to `m_init_done = 1`
pqos_init_unwind(g, in, ret, label) ==
  unwind_init(
    unwind_log(
      unwind_cpuinfo(
        unwind_machine(g, in, ret, label),
        in, ret, label),
      in, ret, label),
    ret)

\* pqos_init from the unwinding labels to its return; b is what the body left
pqos_init_end(b, in) ==
  LET v == _pqos_api_unlock(pqos_init_unwind(b.g, in, b.ret, b.label))
  IN [g |-> IF b.ret # PQOS_RETVAL_OK THEN _pqos_api_exit(v, in).g ELSE v,
      ret |-> b.ret]

\* pqos_init once the lock is taken
pqos_init_locked(l, in) ==
  LET chk == _pqos_check_init(l, 0)
  IN IF chk # PQOS_RETVAL_OK
     THEN [g |-> _pqos_api_unlock(l), ret |-> chk]
     ELSE pqos_init_end(pqos_init_body(l, in), in)

\* pqos_init once the lock is created (or not); a is what _pqos_api_init left
pqos_init_created(a, in) ==
  IF a.ret # 0 THEN [g |-> a.g, ret |-> PQOS_RETVAL_ERROR]
  ELSE pqos_init_locked(_pqos_api_lock(a.g, in), in)

pqos_init(g, in) ==
  IF in.config = NULL THEN [g |-> g, ret |-> PQOS_RETVAL_PARAM]
  ELSE IF rdt_iface_mismatch(in.env, Deref(in.config).interface)
    THEN [g |-> g, ret |-> PQOS_RETVAL_ERROR]
  ELSE pqos_init_created(_pqos_api_init(g, in), in)

\* pqos_fini_release that gives up when cpuinfo_fini() fails
pqos_fini_release_gives_up(l, in) ==
  LET f1 == CompCall(l, "pqos_mon_fini", 0, "mon", FALSE)
      f2 == CompCall(f1, "pqos_alloc_fini", 0, "alloc", FALSE)
      f3 == CompCall(f2, "cpuinfo_fini", in.cpuinfo_fini_ret, "cpuinfo", FALSE)
      f4 == CompCall(f3, "machine_fini", in.machine_fini_ret, "machine", FALSE)
      rv2 == IF in.machine_fini_ret # PQOS_RETVAL_OK THEN in.machine_fini_ret
             ELSE PQOS_RETVAL_OK
      f5 == CompCall(f4, "log_fini", in.log_fini_ret, "log", FALSE)
      rv3 == IF in.log_fini_ret # PQOS_RETVAL_OK THEN in.log_fini_ret ELSE rv2
  IN IF in.cpuinfo_fini_ret # 0
     THEN [g |-> f3, retval |-> PQOS_RETVAL_ERROR]
     ELSE [g |-> [free_cap(f5) EXCEPT !.m_cpu = NULL, !.m_cap = NULL,
                                      !.m_init_done = 0],
           retval |-> rv3]

\* pqos_fini_release in which retval is the return value of the last module
\* shut down
pqos_fini_release_last_wins(l, in) ==
  LET f1 == CompCall(l, "pqos_mon_fini", 0, "mon", FALSE)
      f2 == CompCall(f1, "pqos_alloc_fini", 0, "alloc", FALSE)
      f3 == CompCall(f2, "cpuinfo_fini", in.cpuinfo_fini_ret, "cpuinfo", FALSE)
      f4 == CompCall(f3, "machine_fini", in.machine_fini_ret, "machine", FALSE)
      f5 == CompCall(f4, "log_fini", in.log_fini_ret, "log", FALSE)
  IN [g |-> [free_cap(f5) EXCEPT !.m_cpu = NULL, !.m_cap = NULL, !.m_init_done = 0],
      retval |-> in.log_fini_ret]

\* pqos_fini from pqos_mon_fini() to `m_init_done = 0`: every module is shut
\* down whatever the one before returned, and retval keeps the failures
pqos_fini_release(l, in) ==
  LET f1 == CompCall(l, "pqos_mon_fini", 0, "mon", FALSE)
      f2 == CompCall(f1, "pqos_alloc_fini", 0, "alloc", FALSE)
      f3 == CompCall(f2, "cpuinfo_fini", in.cpuinfo_fini_ret, "cpuinfo", FALSE)
      rv1 == IF in.cpuinfo_fini_ret # 0 THEN PQOS_RETVAL_ERROR ELSE PQOS_RETVAL_OK
      f4 == CompCall(f3, "machine_fini", in.machine_fini_ret, "machine", FALSE)
      rv2 == IF in.machine_fini_ret # PQOS_RETVAL_OK THEN in.machine_fini_ret
             ELSE rv1
      f5 == CompCall(f4, "log_fini", in.log_fini_ret, "log", FALSE)
      rv3 == IF in.log_fini_ret # PQOS_RETVAL_OK THEN in.log_fini_ret ELSE rv2
  IN [g |-> [free_cap(f5) EXCEPT !.m_cpu = NULL, !.m_cap = NULL, !.m_init_done = 0],
      retval |-> rv3]

\* pqos_fini from the unlock to its return; r is what the release left
pqos_fini_end(r, in) ==
  LET x == _pqos_api_exit(_pqos_api_unlock(r.g), in)
  IN [g |-> x.g, ret |-> IF x.ret # 0 THEN PQOS_RETVAL_ERROR ELSE r.retval]

\* pqos_fini_locked that gives up when _pqos_api_lock() could not take the lock
pqos_fini_locked_needs_lock(l, in) ==
  LET chk == IF l.trace[Len(l.trace)].ret # 0 THEN PQOS_RETVAL_ERROR
             ELSE _pqos_check_init(l, 1)
  IN IF chk # PQOS_RETVAL_OK
     THEN [g |-> _pqos_api_exit(_pqos_api_unlock(l), in).g, ret |-> chk]
     ELSE pqos_fini_end(pqos_fini_release(l, in), in)

\* pqos_fini once the lock is taken
pqos_fini_locked(l, in) ==
  LET chk == _pqos_check_init(l, 1)
  IN IF chk # PQOS_RETVAL_OK
     THEN [g |-> _pqos_api_exit(_pqos_api_unlock(l), in).g, ret |-> chk]
     ELSE pqos_fini_end(pqos_fini_release(l, in), in)

pqos_fini(g, in) == pqos_fini_locked(_pqos_api_lock(g, in), in)

\* _pqos_cap_get(cap, cpu): the outputs are written where the argument is not NULL
_pqos_cap_get(g, out, in) ==
  [cap |-> IF in.cap_arg # NULL THEN [written |-> TRUE, val |-> g.m_cap] ELSE out.cap,
   cpu |-> IF in.cpu_arg # NULL THEN [written |-> TRUE, val |-> g.m_cpu] ELSE out.cpu]

\* pqos_cap_get_locked that fills the outputs before it checks the life cycle
pqos_cap_get_locked_fills_first(l, out, in) ==
  LET chk == _pqos_check_init(l, 1)
  IN [g |-> _pqos_api_unlock(l), ret |-> chk, out |-> _pqos_cap_get(l, out, in)]

\* pqos_cap_get once the lock is taken
pqos_cap_get_locked(l, out, in) ==
  LET chk == _pqos_check_init(l, 1)
  IN IF chk # PQOS_RETVAL_OK
     THEN [g |-> _pqos_api_unlock(l), ret |-> chk, out |-> out]
     ELSE [g |-> _pqos_api_unlock(l), ret |-> PQOS_RETVAL_OK,
           out |-> _pqos_cap_get(l, out, in)]

\* pqos_cap_get(cap, cpu); out holds *cap and *cpu of the caller
pqos_cap_get(g, out, in) ==
  IF in.cap_arg = NULL /\ in.cpu_arg = NULL
  THEN [g |-> g, ret |-> PQOS_RETVAL_PARAM, out |-> out]
  ELSE pqos_cap_get_locked(_pqos_api_lock(g, in), out, in)

(***************************************************************************)
(* The calls the environment can make, and the answers it can give.        *)
(***************************************************************************)
\* The topology cpuinfo_init() hands out
Topology == [num_cores |-> 2]

\* Descriptors the probes can produce
MonDescs == {[max_rmid |-> 16, l3_size |-> 1024, num_events |-> 1,
              events |-> <<[type |-> "PQOS_MON_EVENT_L3_OCCUP", max_rmid |-> 16,
                            scale_factor |-> 1]>>]}
L3Descs == {[num_classes |-> 16, num_ways |-> 12, way_size |-> 85, cdp |-> 1,
             cdp_on |-> 0, way_contention |-> 0]}
L2Descs == {[num_classes |-> 8, num_ways |-> 8, way_size |-> 32, cdp |-> 0,
             cdp_on |-> 0, way_contention |-> 0]}
MbaDescs == {[num_classes |-> 8, throttle_max |-> 90, throttle_step |-> 10,
              is_linear |-> 1, ctrl |-> -1, ctrl_on |-> 0]}

NotPresent == [ret |-> PQOS_RETVAL_RESOURCE, det |-> NULL]
\* a probe that does not stop discovery: a descriptor, or "not present"
NonFatal(descs) == {[ret |-> PQOS_RETVAL_OK, det |-> Ptr(d)] : d \in descs}
                   \cup {NotPresent}
\* a probe that stops discovery
Fatal == {[ret |-> r, det |-> NULL] : r \in {PQOS_RETVAL_ERROR, PQOS_RETVAL_PARAM}}

\* The answers of the four probes; a probe after a fatal one is never called
ProbeAnswers ==
  {[mon |-> a, l3ca |-> b, l2ca |-> c, mba |-> d] :
     a \in NonFatal(MonDescs), b \in NonFatal(L3Descs),
     c \in NonFatal(L2Descs), d \in NonFatal(MbaDescs) \cup Fatal}
  \cup {[mon |-> a, l3ca |-> b, l2ca |-> c, mba |-> NotPresent] :
     a \in NonFatal(MonDescs), b \in NonFatal(L3Descs), c \in Fatal}
  \cup {[mon |-> a, l3ca |-> b, l2ca |-> NotPresent, mba |-> NotPresent] :
     a \in NonFatal(MonDescs), b \in Fatal}
  \cup {[mon |-> a, l3ca |-> NotPresent, l2ca |-> NotPresent, mba |-> NotPresent] :
     a \in Fatal}

AllFound(p) == \A f \in {"mon", "l3ca", "l2ca", "mba"} : p[f].ret # PQOS_RETVAL_ERROR
                                                           /\ p[f].ret # PQOS_RETVAL_PARAM
SomeFound(p) == AllFound(p) /\ \E f \in {"mon", "l3ca", "l2ca", "mba"} :
                                    p[f].ret = PQOS_RETVAL_OK

Interfaces == {PQOS_INTER_MSR, PQOS_INTER_OS, PQOS_INTER_OS_RESCTRL_MON}

Envs == {NULL, Ptr(<<"O", "S">>), Ptr(<<"m", "s", "r">>), Ptr(<<"X">>), Ptr(<<>>),
         Ptr(<<"O", "S", "X">>)}

\* Every collaborator succeeds, every probe finds its resource
InDefault ==
  [config |-> Ptr([interface |-> PQOS_INTER_MSR]), env |-> NULL,
   cap_arg |-> NULL, cpu_arg |-> NULL,
   open_ok |-> TRUE, mutex_init_ok |-> TRUE, lockf_ok |-> TRUE, mutex_lock_ok |-> TRUE,
   close_ok |-> TRUE, destroy_ok |-> TRUE,
   log_init_ret |-> PQOS_RETVAL_OK, cpuinfo |-> [ret |-> 0, cpu |-> Ptr(Topology)],
   machine_init_ret |-> PQOS_RETVAL_OK, os_cap_init_ret |-> PQOS_RETVAL_OK,
   mon |-> [ret |-> PQOS_RETVAL_OK, det |-> Ptr(CHOOSE d \in MonDescs : TRUE)],
   l3ca |-> [ret |-> PQOS_RETVAL_OK, det |-> Ptr(CHOOSE d \in L3Descs : TRUE)],
   l2ca |-> [ret |-> PQOS_RETVAL_OK, det |-> Ptr(CHOOSE d \in L2Descs : TRUE)],
   mba |-> [ret |-> PQOS_RETVAL_OK, det |-> Ptr(CHOOSE d \in MbaDescs : TRUE)],
   malloc_ok |-> TRUE, mba_ctrl |-> [ret |-> PQOS_RETVAL_OK, ctrl |-> 1, ctrl_on |-> 0],
   utils_ret |-> PQOS_RETVAL_OK, api_ret |-> PQOS_RETVAL_OK,
   alloc_ret |-> PQOS_RETVAL_OK, mon_ret |-> PQOS_RETVAL_OK,
   cpuinfo_fini_ret |-> 0, machine_fini_ret |-> PQOS_RETVAL_OK,
   log_fini_ret |-> PQOS_RETVAL_OK]

\* Answers of the lock primitives when a call takes the lock
LockAnswers == {[lockf_ok |-> a, mutex_lock_ok |-> b] : a, b \in BOOLEAN}
\* Answers of close() and pthread_mutex_destroy() when a call tears the lock down
ExitAnswers == {[close_ok |-> a, destroy_ok |-> b] : a, b \in BOOLEAN}

\* The ways pqos_init can end once initialisation is under way
TailAnswers ==
  {[utils_ret |-> PQOS_RETVAL_ERROR], [api_ret |-> PQOS_RETVAL_ERROR]}
  \cup {[alloc_ret |-> a, mon_ret |-> m] :
          a \in {PQOS_RETVAL_OK, PQOS_RETVAL_BUSY, PQOS_RETVAL_ERROR,
                 PQOS_RETVAL_RESOURCE},
          m \in {PQOS_RETVAL_OK, PQOS_RETVAL_RESOURCE, PQOS_RETVAL_ERROR}}

\* A collaborator that fails before discovery
EarlyFailures ==
  {[log_init_ret |-> PQOS_RETVAL_ERROR],
   [cpuinfo |-> [ret |-> -1, cpu |-> NULL]],
   [machine_init_ret |-> PQOS_RETVAL_ERROR],
   [os_cap_init_ret |-> PQOS_RETVAL_ERROR]}

\* What can go on in pqos_init once the lock is taken: one record per course
\* the call can take (a collaborator that is not reached keeps its default)
InitCourses ==
  EarlyFailures
  \cup {p : p \in {q \in ProbeAnswers : ~SomeFound(q)}}
  \cup {p @@ [malloc_ok |-> FALSE] : p \in {q \in ProbeAnswers : SomeFound(q)}}
  \cup {p @@ [mba_ctrl |-> [ret |-> PQOS_RETVAL_ERROR, ctrl |-> -1, ctrl_on |-> 0]] :
           p \in {q \in ProbeAnswers : SomeFound(q)}}
  \cup {p @@ t : p \in {q \in ProbeAnswers : SomeFound(q)}, t \in TailAnswers}

\* The courses that are also taken with failing lock primitives
LockCourses ==
  EarlyFailures
  \cup {[alloc_ret |-> PQOS_RETVAL_OK, mon_ret |-> m] :
          m \in {PQOS_RETVAL_OK, PQOS_RETVAL_ERROR}}

InitInputs ==
  \* refused on its arguments or on RDT_IFACE, or let through by them
  {[config |-> c, env |-> e] @@ InDefault :
     c \in {NULL} \cup {Ptr([interface |-> i]) :
                          i \in Interfaces \cup {PQOS_INTER_OS_RESCTRL_MON + 1}},
     e \in Envs}
  \* the lock cannot be created
  \cup {[open_ok |-> FALSE] @@ InDefault, [mutex_init_ok |-> FALSE] @@ InDefault}
  \* every course of the call, under every interface
  \cup {[config |-> Ptr([interface |-> i])] @@ c @@ InDefault :
          i \in Interfaces, c \in InitCourses}
  \* failing lock primitives
  \cup {[config |-> Ptr([interface |-> i])] @@ c @@ l @@ x @@ InDefault :
          i \in Interfaces, c \in LockCourses, l \in LockAnswers, x \in ExitAnswers}

FiniInputs ==
  {[cpuinfo_fini_ret |-> a, machine_fini_ret |-> b, log_fini_ret |-> c]
     @@ l @@ x @@ InDefault :
     a \in {0, -1}, b \in {PQOS_RETVAL_OK, PQOS_RETVAL_ERROR},
     c \in {PQOS_RETVAL_OK, PQOS_RETVAL_ERROR},
     l \in LockAnswers, x \in ExitAnswers}

CapGetInputs ==
  {[cap_arg |-> a, cpu_arg |-> b] @@ l @@ InDefault :
     a, b \in {NULL, Ptr("out")}, l \in LockAnswers}

\* *cap and *cpu of the caller before pqos_cap_get
Unwritten == [cap |-> [written |-> FALSE, val |-> NULL],
              cpu |-> [written |-> FALSE, val |-> NULL]]

\* The static state, as `last.pre` keeps it
Snapshot(g) == [m_cap |-> g.m_cap, m_cpu |-> g.m_cpu, m_init_done |-> g.m_init_done,
                m_apilock |-> g.m_apilock, m_apilock_mutex |-> g.m_apilock_mutex,
                m_interface |-> g.m_interface, lock_fds |-> g.lock_fds,
                lockf_held |-> g.lockf_held, comp |-> g.comp, heap |-> g.heap]

\* No call has returned that the application has not yet looked at
NoCall == [op |-> "none", ret |-> PQOS_RETVAL_OK,
           pre |-> [m_cap |-> NULL, m_cpu |-> NULL, m_init_done |-> 0,
                    m_apilock |-> -1, m_apilock_mutex |-> "invalid",
                    m_interface |-> PQOS_INTER_MSR, lock_fds |-> {},
                    lockf_held |-> FALSE,
                    comp |-> [log |-> FALSE, cpuinfo |-> FALSE, machine |-> FALSE,
                              alloc |-> FALSE, mon |-> FALSE],
                    heap |-> 0],
           config |-> NULL, env |-> NULL, cap_arg |-> NULL, cpu_arg |-> NULL,
           trace |-> <<>>, dc |-> NULL, out |-> Unwritten, in |-> InDefault]

\* The static variables after a call that returned ret and left g
CallReturns(op, in, g, ret, out) ==
  /\ m_cap' = g.m_cap
  /\ m_cpu' = g.m_cpu
  /\ m_init_done' = g.m_init_done
  /\ m_apilock' = g.m_apilock
  /\ m_apilock_mutex' = g.m_apilock_mutex
  /\ m_interface' = g.m_interface
  /\ lock_fds' = g.lock_fds
  /\ lockf_held' = g.lockf_held
  /\ comp' = g.comp
  /\ heap' = g.heap
  /\ last' = [op |-> op, ret |-> ret, pre |-> Snapshot(Globals),
              config |-> in.config, env |-> in.env,
              cap_arg |-> in.cap_arg, cpu_arg |-> in.cpu_arg,
              trace |-> g.trace, dc |-> g.dc, out |-> out, in |-> in]

\* The state after a call that returned ret and left g
Return(op, in, g, ret, out) ==
  /\ CallReturns(op, in, g, ret, out)
  /\ UNCHANGED <<proc, thr, hw, hooks>>

Init ==
  /\ m_cap = NULL
  /\ m_cpu = NULL
  /\ m_init_done = 0
  /\ m_apilock = -1
  /\ m_apilock_mutex = "invalid"
  /\ m_interface = PQOS_INTER_MSR
  /\ lock_fds = {}
  /\ lockf_held = FALSE
  /\ comp = [log |-> FALSE, cpuinfo |-> FALSE, machine |-> FALSE,
             alloc |-> FALSE, mon |-> FALSE]
  /\ heap = 0
  /\ last = NoCall
  /\ proc = <<>>
  /\ thr = <<>>
  /\ hw = <<>>
  /\ hooks = <<>>

\* The application calls pqos_init(config)
PqosInit ==
  /\ last = NoCall
  /\ \E in \in InitInputs :
       LET r == pqos_init(Globals, in)
       IN Return("pqos_init", in, r.g, r.ret, Unwritten)

\* The application calls pqos_fini()
PqosFini ==
  /\ last = NoCall
  /\ \E in \in FiniInputs :
       LET r == pqos_fini(Globals, in)
       IN Return("pqos_fini", in, r.g, r.ret, Unwritten)

\* The application calls pqos_cap_get(cap, cpu)
PqosCapGet ==
  /\ last = NoCall
  /\ \E in \in CapGetInputs :
       LET r == pqos_cap_get(Globals, Unwritten, in)
       IN Return("pqos_cap_get", in, r.g, r.ret, r.out)

\* The application has looked at what the call returned and goes on
Continue ==
  /\ last # NoCall
  /\ last' = NoCall
  /\ UNCHANGED <<m_cap, m_cpu, m_init_done, m_apilock, m_apilock_mutex,
                 m_interface, lock_fds, lockf_held, comp, heap, proc, thr,
                 hw, hooks>>

Next == PqosInit \/ PqosFini \/ PqosCapGet \/ Continue

Spec == Init /\ [][Next]_vars

(***************************************************************************)
(* Several processes, each with its own copy of the static variables, and  *)
(* their threads.  A thread runs an entry point one statement at a time:   *)
(* every access to m_apilock and every lock primitive is a step of its     *)
(* own, what happens between _pqos_api_lock() and _pqos_api_unlock() is    *)
(* one step.  lockf() blocks while another process holds the lock on       *)
(* LOCKFILE (the lock belongs to the process, not to the thread),          *)
(* pthread_mutex_lock() blocks while the mutex is locked.                  *)
(***************************************************************************)
\* number of calls the threads make, all together
MaxCalls == 3

\* <<process, thread>>: process 1 has two threads, process 2 has one
Threads == {<<1, 1>>, <<1, 2>>, <<2, 1>>}
ProcOf(t) == t[1]
Procs == {ProcOf(t) : t \in Threads}

\* The static variables of a process before its first call
ProcStart == NoCall.pre

\* A thread that is in no call.  err: a lock primitive of the call has failed;
\* ub: the thread has used a mutex in a state in which the behaviour of the
\* primitive is undefined (it stays set)
IdleThread == [pc |-> "idle", op |-> "none", calls |-> 0, ret |-> PQOS_RETVAL_OK,
               log |-> <<>>, err |-> FALSE, exit |-> FALSE, ub |-> FALSE,
               label |-> "none"]

\* The static variables of process p, as the operators of a call take them
ProcGlobals(p) == proc[p] @@ [trace |-> <<>>, dc |-> NULL]

\* Another process holds the lockf() lock on LOCKFILE
OtherHolds(p) == \E q \in Procs \ {p} : proc[q].lockf_held

\* Thread t has made a step that left g and th
Step(t, g, th) ==
  /\ proc' = [proc EXCEPT ![ProcOf(t)] = Snapshot(g)]
  /\ thr' = [thr EXCEPT ![t] = th]
  /\ UNCHANGED <<m_cap, m_cpu, m_init_done, m_apilock, m_apilock_mutex,
                 m_interface, lock_fds, lockf_held, comp, heap, last, hw, hooks>>

\* The call of thread th returns ret
Returned(th, ret) ==
  [th EXCEPT !.pc = "idle", !.ret = ret, !.log = <<>>,
             !.err = FALSE, !.exit = FALSE]

\* The calls made so far
CallsMade == Cardinality({x \in Threads \X (1..MaxCalls) : x[2] <= thr[x[1]].calls})

\* What pqos_init can meet between lock and unlock: success, or a late failure
MtInitInputs == {InDefault, [alloc_ret |-> PQOS_RETVAL_BUSY] @@ InDefault}

\* A thread calls pqos_init(&config), pqos_fini() or pqos_cap_get(&cap, &cpu)
MtCall ==
  \E t \in Threads :
    /\ thr[t].pc = "idle" /\ CallsMade < MaxCalls
    /\ \E op \in {"pqos_init", "pqos_fini", "pqos_cap_get"} :
         Step(t, ProcGlobals(ProcOf(t)),
              [thr[t] EXCEPT !.op = op, !.ret = PQOS_RETVAL_OK, !.calls = @ + 1,
                             !.pc = IF op = "pqos_init" THEN "api_init_guard"
                                    ELSE "lockf"])

\* _pqos_api_init: `if (m_apilock != -1) return -1;`
MtApiInitGuard ==
  \E t \in Threads :
    /\ thr[t].pc = "api_init_guard"
    /\ LET g == ProcGlobals(ProcOf(t))
       IN IF g.m_apilock # -1
          THEN Step(t, g, Returned(thr[t], PQOS_RETVAL_ERROR))
          ELSE Step(t, g, [thr[t] EXCEPT !.pc = "api_init_open"])

\* _pqos_api_init: `m_apilock = open(...); if (m_apilock == -1) return -1;`
MtApiInitOpen ==
  \E t \in Threads :
    /\ thr[t].pc = "api_init_open"
    /\ LET o == open(ProcGlobals(ProcOf(t)), TRUE)
           g1 == [o.g EXCEPT !.m_apilock = o.ret]
       IN IF g1.m_apilock = -1
          THEN Step(t, g1, Returned(thr[t], PQOS_RETVAL_ERROR))
          ELSE Step(t, g1, [thr[t] EXCEPT !.pc = "api_init_mutex"])

\* _pqos_api_init: pthread_mutex_init().  On a mutex that is initialised
\* already the behaviour is undefined: it is initialised again or the call fails.
MtApiInitMutex ==
  \E t \in Threads :
    /\ thr[t].pc = "api_init_mutex"
    /\ LET g == ProcGlobals(ProcOf(t))
       IN \E ok \in (IF g.m_apilock_mutex = "invalid" THEN {TRUE} ELSE BOOLEAN) :
            LET mi == pthread_mutex_init(g, ok)
            IN IF mi.ret # 0
               THEN Step(t, [close(mi.g, mi.g.m_apilock, TRUE).g EXCEPT !.m_apilock = -1],
                         Returned([thr[t] EXCEPT !.ub = TRUE], PQOS_RETVAL_ERROR))
               ELSE Step(t, mi.g, [thr[t] EXCEPT !.pc = "lockf",
                                     !.ub = @ \/ g.m_apilock_mutex # "invalid"])

\* _pqos_api_lock: lockf(m_apilock, F_LOCK, 0)
MtLockf ==
  \E t \in Threads :
    /\ thr[t].pc = "lockf"
    /\ LET g == ProcGlobals(ProcOf(t))
       IN IF g.m_apilock \in g.lock_fds
          THEN /\ ~OtherHolds(ProcOf(t))
               /\ Step(t, lockf_lock(g, g.m_apilock, TRUE).g,
                       [thr[t] EXCEPT !.pc = "mutex_lock",
                                      !.log = Append(@, "lockf F_LOCK")])
          ELSE Step(t, g, [thr[t] EXCEPT !.pc = "mutex_lock", !.err = TRUE,
                                         !.log = Append(@, "lockf F_LOCK")])

\* _pqos_api_lock: pthread_mutex_lock(&m_apilock_mutex)
MtMutexLock ==
  \E t \in Threads :
    /\ thr[t].pc = "mutex_lock"
    /\ LET g == ProcGlobals(ProcOf(t))
       IN /\ g.m_apilock_mutex # "locked"
          /\ \E ok \in (IF g.m_apilock_mutex = "unlocked" THEN {TRUE} ELSE BOOLEAN) :
               LET m == pthread_mutex_lock(g, ok)
               IN Step(t, m.g,
                       [thr[t] EXCEPT !.pc = "locked", !.err = @ \/ m.ret # 0,
                                      !.ub = @ \/ g.m_apilock_mutex = "invalid",
                                      !.log = Append(@, "pthread_mutex_lock")])

\* pqos_init between lock and unlock
MtInitLocked ==
  \E t \in Threads :
    /\ thr[t].pc = "locked" /\ thr[t].op = "pqos_init"
    /\ LET g == ProcGlobals(ProcOf(t))
           chk == _pqos_check_init(g, 0)
       IN IF chk # PQOS_RETVAL_OK
          THEN Step(t, g, [thr[t] EXCEPT !.pc = "lockf_unlock", !.ret = chk])
          ELSE \E in \in MtInitInputs :
                 LET b == pqos_init_body(g, in)
                 IN Step(t, b.g, [thr[t] EXCEPT !.pc = "init_unwind",
                                                !.ret = b.ret, !.label = b.label])

\* pqos_init from the label it left its body for to `m_init_done = 1`, still
\* between lock and unlock
MtInitUnwind ==
  \E t \in Threads :
    /\ thr[t].pc = "init_unwind"
    /\ Step(t, pqos_init_unwind(ProcGlobals(ProcOf(t)), InDefault,
                                thr[t].ret, thr[t].label),
            [thr[t] EXCEPT !.pc = "lockf_unlock", !.label = "none",
                           !.exit = thr[t].ret # PQOS_RETVAL_OK])

\* pqos_fini between lock and unlock
MtFiniLocked ==
  \E t \in Threads :
    /\ thr[t].pc = "locked" /\ thr[t].op = "pqos_fini"
    /\ LET g == ProcGlobals(ProcOf(t))
           chk == _pqos_check_init(g, 1)
       IN IF chk # PQOS_RETVAL_OK
          THEN Step(t, g, [thr[t] EXCEPT !.pc = "lockf_unlock", !.ret = chk,
                                         !.exit = TRUE])
          ELSE IF g.m_cap = NULL
          \* `m_cap->num_cap` on a NULL m_cap: the call does not get further
          THEN Step(t, g, [thr[t] EXCEPT !.pc = "crashed", !.ub = TRUE])
          ELSE LET r == pqos_fini_release(g, InDefault)
               IN Step(t, r.g, [thr[t] EXCEPT !.pc = "lockf_unlock",
                                              !.ret = r.retval, !.exit = TRUE])

\* pqos_cap_get between lock and unlock
MtCapGetLocked ==
  \E t \in Threads :
    /\ thr[t].pc = "locked" /\ thr[t].op = "pqos_cap_get"
    /\ LET g == ProcGlobals(ProcOf(t))
       IN Step(t, g, [thr[t] EXCEPT !.pc = "lockf_unlock",
                                    !.ret = _pqos_check_init(g, 1)])

\* _pqos_api_unlock: lockf(m_apilock, F_ULOCK, 0)
MtLockfUnlock ==
  \E t \in Threads :
    /\ thr[t].pc = "lockf_unlock"
    /\ LET g == ProcGlobals(ProcOf(t))
           f == lockf_unlock(g, g.m_apilock)
       IN Step(t, f.g, [thr[t] EXCEPT !.pc = "mutex_unlock", !.err = @ \/ f.ret # 0,
                                      !.log = Append(@, "lockf F_ULOCK")])

\* _pqos_api_unlock: pthread_mutex_unlock(&m_apilock_mutex), and the return of
\* a call that leaves the lock in place
MtMutexUnlock ==
  \E t \in Threads :
    /\ thr[t].pc = "mutex_unlock"
    /\ LET m == pthread_mutex_unlock(ProcGlobals(ProcOf(t)))
           th == [thr[t] EXCEPT !.ub = @ \/ m.ret # 0]
       IN Step(t, m.g,
               IF th.exit
               THEN [th EXCEPT !.pc = "exit_close", !.err = @ \/ m.ret # 0,
                               !.log = Append(@, "pthread_mutex_unlock")]
               ELSE Returned(th, th.ret))

\* _pqos_api_exit: close(m_apilock)
MtExitClose ==
  \E t \in Threads :
    /\ thr[t].pc = "exit_close"
    /\ LET g == ProcGlobals(ProcOf(t))
           c == close(g, g.m_apilock, TRUE)
       IN Step(t, c.g, [thr[t] EXCEPT !.pc = "exit_destroy",
                          !.ret = IF c.ret # 0 /\ thr[t].op = "pqos_fini"
                                  THEN PQOS_RETVAL_ERROR ELSE @])

\* _pqos_api_exit: pthread_mutex_destroy(&m_apilock_mutex)
MtExitDestroy ==
  \E t \in Threads :
    /\ thr[t].pc = "exit_destroy"
    /\ LET g == ProcGlobals(ProcOf(t))
       IN \E ok \in (IF g.m_apilock_mutex = "invalid" THEN BOOLEAN ELSE {TRUE}) :
            LET d == pthread_mutex_destroy(g, ok)
            IN Step(t, d.g, [thr[t] EXCEPT !.pc = "exit_set",
                               !.ub = @ \/ g.m_apilock_mutex # "unlocked",
                               !.ret = IF d.ret # 0 /\ thr[t].op = "pqos_fini"
                                       THEN PQOS_RETVAL_ERROR ELSE @])

\* _pqos_api_exit: `m_apilock = -1`, and the return of the call
MtExitSet ==
  \E t \in Threads :
    /\ thr[t].pc = "exit_set"
    /\ Step(t, [ProcGlobals(ProcOf(t)) EXCEPT !.m_apilock = -1],
            Returned(thr[t], thr[t].ret))

InitMT ==
  /\ m_cap = NULL
  /\ m_cpu = NULL
  /\ m_init_done = 0
  /\ m_apilock = -1
  /\ m_apilock_mutex = "invalid"
  /\ m_interface = PQOS_INTER_MSR
  /\ lock_fds = {}
  /\ lockf_held = FALSE
  /\ comp = ProcStart.comp
  /\ heap = 0
  /\ last = NoCall
  /\ proc = [p \in Procs |-> ProcStart]
  /\ thr = [t \in Threads |-> IdleThread]
  /\ hw = <<>>
  /\ hooks = <<>>

NextMT ==
  \/ MtCall \/ MtApiInitGuard \/ MtApiInitOpen \/ MtApiInitMutex
  \/ MtLockf \/ MtMutexLock
  \/ MtInitLocked \/ MtInitUnwind \/ MtFiniLocked \/ MtCapGetLocked
  \/ MtLockfUnlock \/ MtMutexUnlock
  \/ MtExitClose \/ MtExitDestroy \/ MtExitSet

SpecMT == InitMT /\ [][NextMT]_vars

\* Thread t cannot make a step: its lockf() waits for another process to
\* give the file lock back (the guard of MtLockf), its pthread_mutex_lock()
\* waits for the mutex (the guard of MtMutexLock), or its call has crashed
Blocked(t) ==
  \/ /\ thr[t].pc = "lockf"
     /\ proc[ProcOf(t)].m_apilock \in proc[ProcOf(t)].lock_fds
     /\ OtherHolds(ProcOf(t))
  \/ thr[t].pc = "mutex_lock" /\ proc[ProcOf(t)].m_apilock_mutex = "locked"
  \/ thr[t].pc = "crashed"


(***************************************************************************)
(* The platform discovery reads: CPUID, the model-specific registers of    *)
(* the representative cores, the caches cpuinfo found.                     *)
(***************************************************************************)
PQOS_RES_ID_L3_ALLOCATION == 1
PQOS_RES_ID_L2_ALLOCATION == 2
PQOS_RES_ID_MB_ALLOCATION == 3
PQOS_CPUID_CAT_CDP_BIT == 2

\* (x >> k) & 1
Bit(x, k) == (x \div (2 ^ k)) % 2

\* The loop of l3cdp_is_enabled / l2cdp_is_enabled over the partitions (sockets
\* or L2 clusters) from partition j on.  A partition is what the lookup of its
\* representative core returns (core_ret), whether msr_read succeeds (msr_ok)
\* and the value read (reg).
RECURSIVE cdp_loop(_, _, _, _)
cdp_loop(parts, j, enabled_num, disabled_num) ==
  IF j > Len(parts)
  THEN [ret |-> PQOS_RETVAL_OK, enabled_num |-> enabled_num,
        disabled_num |-> disabled_num]
  ELSE IF parts[j].core_ret # PQOS_RETVAL_OK
  THEN [ret |-> parts[j].core_ret, enabled_num |-> enabled_num,
        disabled_num |-> disabled_num]
  ELSE IF ~parts[j].msr_ok
  THEN [ret |-> PQOS_RETVAL_ERROR, enabled_num |-> enabled_num,
        disabled_num |-> disabled_num]
  ELSE IF Bit(parts[j].reg, 0) = 1
  THEN cdp_loop(parts, j + 1, enabled_num + 1, disabled_num)
  ELSE cdp_loop(parts, j + 1, enabled_num, disabled_num + 1)

\* l3cdp_is_enabled that takes one enabled socket for "enabled"
l3cdp_is_enabled_any(sockets) ==
  IF sockets = NULL THEN [ret |-> PQOS_RETVAL_RESOURCE, enabled |-> 0]
  ELSE LET c == cdp_loop(Deref(sockets), 1, 0, 0)
       IN IF c.ret # PQOS_RETVAL_OK THEN [ret |-> c.ret, enabled |-> 0]
          ELSE [ret |-> PQOS_RETVAL_OK,
                enabled |-> IF c.enabled_num > 0 THEN 1 ELSE 0]

\* l3cdp_is_enabled(cpu, &enabled): the status and *enabled, which the
\* function sets to 0 before anything else; sockets is what
\* pqos_cpu_get_sockets returns
l3cdp_is_enabled(sockets) ==
  IF sockets = NULL THEN [ret |-> PQOS_RETVAL_RESOURCE, enabled |-> 0]
  ELSE LET c == cdp_loop(Deref(sockets), 1, 0, 0)
       IN IF c.ret # PQOS_RETVAL_OK THEN [ret |-> c.ret, enabled |-> 0]
          ELSE IF c.disabled_num > 0 /\ c.enabled_num > 0
          THEN [ret |-> PQOS_RETVAL_ERROR, enabled |-> 0]
          ELSE [ret |-> PQOS_RETVAL_OK,
                enabled |-> IF c.enabled_num > 0 THEN 1 ELSE 0]

\* l2cdp_is_enabled(cpu, &enabled): *enabled keeps the value the caller gave
\* it unless the function finds every cluster enabled; l2ids is what
\* pqos_cpu_get_l2ids returns
l2cdp_is_enabled(l2ids, enabled) ==
  IF l2ids = NULL \/ Len(Deref(l2ids)) = 0
  THEN [ret |-> PQOS_RETVAL_RESOURCE, enabled |-> enabled]
  ELSE LET c == cdp_loop(Deref(l2ids), 1, 0, 0)
       IN IF c.ret # PQOS_RETVAL_OK THEN [ret |-> c.ret, enabled |-> enabled]
          ELSE IF c.disabled_num > 0 /\ c.enabled_num > 0
          THEN [ret |-> PQOS_RETVAL_ERROR, enabled |-> enabled]
          ELSE [ret |-> PQOS_RETVAL_OK,
                enabled |-> IF c.enabled_num > 0 THEN 1 ELSE enabled]

\* get_cache_info(cache_info, num_ways, size) with cache_info not NULL and at
\* least one of the outputs wanted
get_cache_info(cache_info) ==
  IF cache_info.detected = 0
  THEN [ret |-> PQOS_RETVAL_RESOURCE, num_ways |-> 0, size |-> 0]
  ELSE [ret |-> PQOS_RETVAL_OK, num_ways |-> cache_info.num_ways,
        size |-> cache_info.total_size]

\* A descriptor after memset(cap, 0, sz)
ZeroedCat == [num_classes |-> 0, num_ways |-> 0, way_size |-> 0, cdp |-> 0,
              cdp_on |-> 0, way_contention |-> 0]

\* The L3 CAT class-mask registers: class 0 and class 127
PQOS_MSR_L3CA_MASK_START == 3216
PQOS_MSR_L3CA_MASK_END == 3343

\* discover_alloc_l3_probe: the class-mask registers are read until one fails
\* or all have been read; platform.mask_msrs of them, from class 0 on, can be
\* read
discover_alloc_l3_probe(cap, platform) ==
  LET max_classes == PQOS_MSR_L3CA_MASK_END - PQOS_MSR_L3CA_MASK_START + 1
      i == IF platform.mask_msrs < max_classes THEN platform.mask_msrs
           ELSE max_classes
  IN IF i = 0 THEN [ret |-> PQOS_RETVAL_RESOURCE, cap |-> cap]
     ELSE [ret |-> PQOS_RETVAL_OK, cap |-> [cap EXCEPT !.num_classes = i]]

\* discover_alloc_l3_brandstr: ext_leaves is the highest extended CPUID leaf
\* as its distance from 0x80000000
discover_alloc_l3_brandstr(cap, platform) ==
  IF platform.ext_leaves < 4 THEN [ret |-> PQOS_RETVAL_ERROR, cap |-> cap]
  ELSE IF ~platform.brand_match THEN [ret |-> PQOS_RETVAL_RESOURCE, cap |-> cap]
  ELSE [ret |-> PQOS_RETVAL_OK, cap |-> [cap EXCEPT !.num_classes = 4]]

\* A register with all 32 bits set, 0xFFFFFFFF: the value is beyond the
\* integers the model checker computes with and is held as its two's
\* complement
AllOnes == 0 - 1

\* x + 1 on an unsigned of 32 bits
inc32(x) == IF x = AllOnes THEN 0 ELSE x + 1

\* The fields a CAT leaf of CPUID 0x10 gives a descriptor
CatLeaf(cap, res) ==
  [cap EXCEPT !.num_classes = inc32(res.edx), !.num_ways = res.eax + 1,
              !.cdp = Bit(res.ecx, PQOS_CPUID_CAT_CDP_BIT), !.cdp_on = 0,
              !.way_contention = res.ebx]

\* discover_alloc_l3_cpuid that keeps the raw class count with CDP on
discover_alloc_l3_cpuid_no_halving(cap, platform) ==
  IF Bit(platform.cpuid10_ebx, PQOS_RES_ID_L3_ALLOCATION) = 0
  THEN [ret |-> PQOS_RETVAL_RESOURCE, cap |-> cap]
  ELSE LET c == CatLeaf(cap, platform.l3)
           e == l3cdp_is_enabled(platform.sockets)
       IN IF c.cdp = 0 THEN [ret |-> PQOS_RETVAL_OK, cap |-> c]
          ELSE IF e.ret # PQOS_RETVAL_OK THEN [ret |-> e.ret, cap |-> c]
          ELSE [ret |-> PQOS_RETVAL_OK, cap |-> [c EXCEPT !.cdp_on = e.enabled]]

\* discover_alloc_l3_cpuid(cap, cpu)
discover_alloc_l3_cpuid(cap, platform) ==
  IF Bit(platform.cpuid10_ebx, PQOS_RES_ID_L3_ALLOCATION) = 0
  THEN [ret |-> PQOS_RETVAL_RESOURCE, cap |-> cap]
  ELSE LET c == CatLeaf(cap, platform.l3)
           e == l3cdp_is_enabled(platform.sockets)
       IN IF c.cdp = 0 THEN [ret |-> PQOS_RETVAL_OK, cap |-> c]
          ELSE IF e.ret # PQOS_RETVAL_OK THEN [ret |-> e.ret, cap |-> c]
          ELSE [ret |-> PQOS_RETVAL_OK,
                cap |-> [c EXCEPT !.cdp_on = e.enabled,
                                  !.num_classes = IF e.enabled # 0 THEN @ \div 2
                                                  ELSE @]]

\* The end of discover_alloc_l3: d is what the detection method left, info
\* what get_cache_info then gave (it is not called when the method failed)
discover_alloc_l3_end(d, info, take_ways) ==
  LET ret == IF d.ret = PQOS_RETVAL_OK THEN info.ret ELSE d.ret
      ways == IF d.ret = PQOS_RETVAL_OK /\ info.ret = PQOS_RETVAL_OK /\ take_ways
              THEN info.num_ways ELSE d.cap.num_ways
      size == IF d.ret = PQOS_RETVAL_OK THEN info.size ELSE 0
  IN [ret |-> ret,
      det |-> IF ret # PQOS_RETVAL_OK THEN NULL
              ELSE Ptr([d.cap EXCEPT !.num_ways = ways,
                                     !.way_size = IF ways > 0 THEN size \div ways
                                                  ELSE @])]

\* discover_alloc_l3 that does not probe the registers when the brand string
\* is not on the list
discover_alloc_l3_no_probe(platform) ==
  IF ~platform.malloc_ok
  THEN [ret |-> PQOS_RETVAL_RESOURCE, det |-> NULL, tried |-> <<>>]
  ELSE IF Bit(platform.cpuid7_ebx, 15) = 1
  THEN discover_alloc_l3_end(discover_alloc_l3_cpuid(ZeroedCat, platform),
                             get_cache_info(platform.l3cache), FALSE)
       @@ [tried |-> <<"cpuid">>]
  ELSE discover_alloc_l3_end(discover_alloc_l3_brandstr(ZeroedCat, platform),
                             get_cache_info(platform.l3cache), TRUE)
       @@ [tried |-> <<"brandstr">>]

\* discover_alloc_l3(r_cap, cpu); tried lists the detection methods it called
discover_alloc_l3(platform) ==
  IF ~platform.malloc_ok
  THEN [ret |-> PQOS_RETVAL_RESOURCE, det |-> NULL, tried |-> <<>>]
  ELSE IF Bit(platform.cpuid7_ebx, 15) = 1
  THEN discover_alloc_l3_end(discover_alloc_l3_cpuid(ZeroedCat, platform),
                             get_cache_info(platform.l3cache), FALSE)
       @@ [tried |-> <<"cpuid">>]
  ELSE LET b == discover_alloc_l3_brandstr(ZeroedCat, platform)
       IN discover_alloc_l3_end(IF b.ret # PQOS_RETVAL_OK
                                THEN discover_alloc_l3_probe(b.cap, platform)
                                ELSE b,
                                get_cache_info(platform.l3cache), TRUE)
          @@ [tried |-> IF b.ret # PQOS_RETVAL_OK THEN <<"brandstr", "probe">>
                        ELSE <<"brandstr">>]

\* discover_alloc_l2(r_cap, cpu)
discover_alloc_l2(platform) ==
  IF ~platform.malloc_ok THEN [ret |-> PQOS_RETVAL_RESOURCE, det |-> NULL]
  ELSE IF Bit(platform.cpuid7_ebx, 15) = 0
  THEN [ret |-> PQOS_RETVAL_RESOURCE, det |-> NULL]
  ELSE IF Bit(platform.cpuid10_ebx, PQOS_RES_ID_L2_ALLOCATION) = 0
  THEN [ret |-> PQOS_RETVAL_RESOURCE, det |-> NULL]
  ELSE LET c == CatLeaf(ZeroedCat, platform.l2)
           e == IF c.cdp # 0 THEN l2cdp_is_enabled(platform.l2ids, 0)
                ELSE [ret |-> PQOS_RETVAL_OK, enabled |-> 0]
           info == get_cache_info(platform.l2cache)
       IN IF e.ret # PQOS_RETVAL_OK THEN [ret |-> e.ret, det |-> NULL]
          ELSE IF info.ret # PQOS_RETVAL_OK
          THEN [ret |-> PQOS_RETVAL_ERROR, det |-> NULL]
          ELSE [ret |-> PQOS_RETVAL_OK,
                det |-> Ptr([c EXCEPT !.cdp_on = e.enabled,
                                      !.num_classes = IF e.enabled # 0
                                                      THEN @ \div 2 ELSE @,
                                      !.way_size = IF c.num_ways > 0
                                                   THEN info.size \div c.num_ways
                                                   ELSE @])]

\* discover_alloc_mba that takes a non-linear throttling as it comes
discover_alloc_mba_nonlinear(platform) ==
  IF ~platform.malloc_ok THEN [ret |-> PQOS_RETVAL_RESOURCE, det |-> NULL]
  ELSE IF Bit(platform.cpuid7_ebx, 15) = 0
  THEN [ret |-> PQOS_RETVAL_RESOURCE, det |-> NULL]
  ELSE IF Bit(platform.cpuid10_ebx, PQOS_RES_ID_MB_ALLOCATION) = 0
  THEN [ret |-> PQOS_RETVAL_RESOURCE, det |-> NULL]
  ELSE [ret |-> PQOS_RETVAL_OK,
        det |-> Ptr([num_classes |-> (platform.mba.edx % 65536) + 1,
                     throttle_max |-> (platform.mba.eax % 4096) + 1,
                     throttle_step |-> IF Bit(platform.mba.ecx, 2) = 1
                                       THEN 100 - ((platform.mba.eax % 4096) + 1)
                                       ELSE 0,
                     is_linear |-> Bit(platform.mba.ecx, 2),
                     ctrl |-> -1, ctrl_on |-> 0])]

\* discover_alloc_mba(r_cap)
discover_alloc_mba(platform) ==
  IF ~platform.malloc_ok THEN [ret |-> PQOS_RETVAL_RESOURCE, det |-> NULL]
  ELSE IF Bit(platform.cpuid7_ebx, 15) = 0
  THEN [ret |-> PQOS_RETVAL_RESOURCE, det |-> NULL]
  ELSE IF Bit(platform.cpuid10_ebx, PQOS_RES_ID_MB_ALLOCATION) = 0
  THEN [ret |-> PQOS_RETVAL_RESOURCE, det |-> NULL]
  ELSE IF Bit(platform.mba.ecx, 2) = 0
  THEN [ret |-> PQOS_RETVAL_RESOURCE, det |-> NULL]
  ELSE [ret |-> PQOS_RETVAL_OK,
        det |-> Ptr([num_classes |-> (platform.mba.edx % 65536) + 1,
                     throttle_max |-> (platform.mba.eax % 4096) + 1,
                     throttle_step |-> 100 - ((platform.mba.eax % 4096) + 1),
                     is_linear |-> 1, ctrl |-> -1, ctrl_on |-> 0])]

(***************************************************************************)
(* The mutation hooks the allocation module calls.                         *)
(***************************************************************************)
\* Index of the first record of a type in capabilities[], 0 if there is none
FindCap(cap, type) ==
  LET found == {i \in 1..cap.num_cap : cap.capabilities[i].type = type}
  IN IF found = {} THEN 0 ELSE CHOOSE i \in found : \A j \in found : i <= j

\* The registry with the descriptor of capabilities[i] replaced
WithCap(g, i, u) ==
  [g EXCEPT !.m_cap = Ptr([Deref(g.m_cap) EXCEPT !.capabilities[i].u = u])]

\* What `if (cdp == ON && !cdp_on) {...} if (cdp == OFF && cdp_on) {...}` makes
\* of a descriptor
cdp_change(u, cdp) ==
  IF cdp = "PQOS_REQUIRE_CDP_ON" /\ u.cdp_on = 0
  THEN [u EXCEPT !.cdp_on = 1, !.num_classes = @ \div 2]
  ELSE IF cdp = "PQOS_REQUIRE_CDP_OFF" /\ u.cdp_on # 0
  THEN [u EXCEPT !.cdp_on = 0, !.num_classes = @ * 2]
  ELSE u

\* The two ASSERTs of _pqos_cap_l3cdp_change and of _pqos_cap_l2cdp_change:
\* the argument is one of the three modes, and m_cap != NULL
cdp_change_asserts(g, cdp) ==
  /\ cdp \in {"PQOS_REQUIRE_CDP_ON", "PQOS_REQUIRE_CDP_OFF", "PQOS_REQUIRE_CDP_ANY"}
  /\ g.m_cap # NULL

\* The two ASSERTs of _pqos_cap_mba_change: the argument is one of the three
\* configurations, and m_cap == NULL
mba_change_asserts(g, cfg) ==
  /\ cfg \in {"PQOS_MBA_DEFAULT", "PQOS_MBA_CTRL", "PQOS_MBA_ANY"}
  /\ g.m_cap = NULL

\* _pqos_cap_l3cdp_change(cdp), in a build without assertions
_pqos_cap_l3cdp_change(g, cdp) ==
  IF g.m_cap = NULL THEN g
  ELSE LET i == FindCap(Deref(g.m_cap), PQOS_CAP_TYPE_L3CA)
       IN IF i = 0 THEN g
          ELSE WithCap(g, i, cdp_change(Deref(g.m_cap).capabilities[i].u, cdp))

\* _pqos_cap_l2cdp_change that turns CDP off without doubling the classes
_pqos_cap_l2cdp_change_keeps_classes(g, cdp) ==
  IF g.m_cap = NULL THEN g
  ELSE LET i == FindCap(Deref(g.m_cap), PQOS_CAP_TYPE_L2CA)
           u == Deref(g.m_cap).capabilities[i].u
       IN IF i = 0 THEN g
          ELSE IF cdp = "PQOS_REQUIRE_CDP_OFF" /\ u.cdp_on # 0
          THEN WithCap(g, i, [u EXCEPT !.cdp_on = 0])
          ELSE WithCap(g, i, cdp_change(u, cdp))

\* _pqos_cap_l2cdp_change(cdp), in a build without assertions
_pqos_cap_l2cdp_change(g, cdp) ==
  IF g.m_cap = NULL THEN g
  ELSE LET i == FindCap(Deref(g.m_cap), PQOS_CAP_TYPE_L2CA)
       IN IF i = 0 THEN g
          ELSE WithCap(g, i, cdp_change(Deref(g.m_cap).capabilities[i].u, cdp))

\* _pqos_cap_mba_change that takes PQOS_MBA_ANY for PQOS_MBA_DEFAULT
_pqos_cap_mba_change_any_is_default(g, cfg) ==
  IF g.m_cap = NULL THEN g
  ELSE LET i == FindCap(Deref(g.m_cap), PQOS_CAP_TYPE_MBA)
           u == Deref(g.m_cap).capabilities[i].u
       IN IF i = 0 THEN g
          ELSE IF cfg = "PQOS_MBA_CTRL"
          THEN WithCap(g, i, [u EXCEPT !.ctrl = IF g.m_interface # PQOS_INTER_MSR
                                                THEN 1 ELSE @,
                                       !.ctrl_on = 1])
          ELSE WithCap(g, i, [u EXCEPT !.ctrl_on = 0])

\* _pqos_cap_mba_change(cfg) resolving the controller under any interface
_pqos_cap_mba_change_ctrl_always(g, cfg) ==
  IF g.m_cap = NULL THEN g
  ELSE LET i == FindCap(Deref(g.m_cap), PQOS_CAP_TYPE_MBA)
           u == Deref(g.m_cap).capabilities[i].u
       IN IF i = 0 THEN g
          ELSE IF cfg = "PQOS_MBA_DEFAULT"
          THEN WithCap(g, i, [u EXCEPT !.ctrl_on = 0])
          ELSE IF cfg = "PQOS_MBA_CTRL"
          THEN WithCap(g, i, [u EXCEPT !.ctrl = 1, !.ctrl_on = 1])
          ELSE g

\* _pqos_cap_mba_change(cfg), in a build without assertions (on Linux)
_pqos_cap_mba_change(g, cfg) ==
  IF g.m_cap = NULL THEN g
  ELSE LET i == FindCap(Deref(g.m_cap), PQOS_CAP_TYPE_MBA)
           u == Deref(g.m_cap).capabilities[i].u
       IN IF i = 0 THEN g
          ELSE IF cfg = "PQOS_MBA_DEFAULT"
          THEN WithCap(g, i, [u EXCEPT !.ctrl_on = 0])
          ELSE IF cfg = "PQOS_MBA_CTRL"
          THEN WithCap(g, i, [u EXCEPT !.ctrl = IF g.m_interface # PQOS_INTER_MSR
                                                THEN 1 ELSE @,
                                       !.ctrl_on = 1])
          ELSE g

(***************************************************************************)
(* Discovery of the monitoring capability                                  *)
(***************************************************************************)
\* add_monitoring_event: m.mon is the structure; m.dropped counts the events
\* it had no room for
add_monitoring_event(m, event_type, max_rmid, scale_factor, max_num_events) ==
  IF m.mon.num_events >= max_num_events
  THEN [m EXCEPT !.dropped = @ + 1]
  ELSE [m EXCEPT !.mon.events = Append(@, [type |-> event_type,
                                           max_rmid |-> max_rmid,
                                           scale_factor |-> scale_factor]),
                 !.mon.num_events = @ + 1]

\* `if (c) add_monitoring_event(...)`
add_if(c, m, event_type, max_rmid, scale_factor, max_num_events) ==
  IF c THEN add_monitoring_event(m, event_type, max_rmid, scale_factor,
                                 max_num_events)
  ELSE m

\* `if (c) num_events++`
count_if(c, num_events) == IF c THEN num_events + 1 ELSE num_events

\* CPUID.0xa.0: IPC can be calculated; LLC misses can be programmed
ipc_supported(cpuid_0xa) == cpuid_0xa.ebx % 4 = 0 /\ cpuid_0xa.edx % 32 > 1
llc_miss_supported(cpuid_0xa) == (cpuid_0xa.eax \div 256) % 256 > 1

\* discover_monitoring: the count of the four RDT events of CPUID.0xf.1
rdt_events(edx) ==
  count_if(Bit(edx, 1) = 1 /\ Bit(edx, 2) = 1,
    count_if(Bit(edx, 2) = 1, count_if(Bit(edx, 1) = 1, count_if(Bit(edx, 0) = 1, 0))))

\* discover_monitoring: the count of the events, the two perf events included
all_events(platform) ==
  count_if(llc_miss_supported(platform.cpuida),
    count_if(ipc_supported(platform.cpuida), rdt_events(platform.cpuidf1.edx)))

\* discover_monitoring that sizes the array without the remote bandwidth event
discover_monitoring_fill_short(platform, num_events) ==
  LET f == platform.cpuidf1
      a == platform.cpuida
      short == IF Bit(f.edx, 1) = 1 /\ Bit(f.edx, 2) = 1 THEN num_events - 1
               ELSE num_events
      m0 == [mon |-> [max_rmid |-> platform.cpuidf0.ebx + 1,
                      l3_size |-> get_cache_info(platform.l3cache).size,
                      num_events |-> 0, events |-> <<>>],
             dropped |-> 0]
      m1 == add_if(Bit(f.edx, 0) = 1, m0, "PQOS_MON_EVENT_L3_OCCUP",
                   f.ecx + 1, f.ebx, short)
      m2 == add_if(Bit(f.edx, 1) = 1, m1, "PQOS_MON_EVENT_TMEM_BW",
                   f.ecx + 1, f.ebx, short)
      m3 == add_if(Bit(f.edx, 2) = 1, m2, "PQOS_MON_EVENT_LMEM_BW",
                   f.ecx + 1, f.ebx, short)
      m4 == add_if(Bit(f.edx, 1) = 1 /\ Bit(f.edx, 2) = 1, m3,
                   "PQOS_MON_EVENT_RMEM_BW", f.ecx + 1, f.ebx, short)
      m5 == add_if(ipc_supported(a), m4, "PQOS_PERF_EVENT_IPC", 0, 0, short)
      m6 == add_if(llc_miss_supported(a), m5, "PQOS_PERF_EVENT_LLC_MISS",
                   0, 0, short)
  IN [ret |-> PQOS_RETVAL_OK, det |-> Ptr(m6.mon), sized |-> short,
      dropped |-> m6.dropped]

\* discover_monitoring from the memset to its return: the events are filled
\* into the array sized for num_events
discover_monitoring_fill(platform, num_events) ==
  LET f == platform.cpuidf1
      a == platform.cpuida
      m0 == [mon |-> [max_rmid |-> platform.cpuidf0.ebx + 1,
                      l3_size |-> get_cache_info(platform.l3cache).size,
                      num_events |-> 0, events |-> <<>>],
             dropped |-> 0]
      m1 == add_if(Bit(f.edx, 0) = 1, m0, "PQOS_MON_EVENT_L3_OCCUP",
                   f.ecx + 1, f.ebx, num_events)
      m2 == add_if(Bit(f.edx, 1) = 1, m1, "PQOS_MON_EVENT_TMEM_BW",
                   f.ecx + 1, f.ebx, num_events)
      m3 == add_if(Bit(f.edx, 2) = 1, m2, "PQOS_MON_EVENT_LMEM_BW",
                   f.ecx + 1, f.ebx, num_events)
      m4 == add_if(Bit(f.edx, 1) = 1 /\ Bit(f.edx, 2) = 1, m3,
                   "PQOS_MON_EVENT_RMEM_BW", f.ecx + 1, f.ebx, num_events)
      m5 == add_if(ipc_supported(a), m4, "PQOS_PERF_EVENT_IPC", 0, 0, num_events)
      m6 == add_if(llc_miss_supported(a), m5, "PQOS_PERF_EVENT_LLC_MISS",
                   0, 0, num_events)
  IN [ret |-> PQOS_RETVAL_OK, det |-> Ptr(m6.mon), sized |-> num_events,
      dropped |-> m6.dropped]

\* What discover_monitoring returns when it builds no structure
no_mon(ret) == [ret |-> ret, det |-> NULL, sized |-> 0, dropped |-> 0]

\* discover_monitoring that takes a platform without RDT events as one
\* without monitoring
discover_monitoring_no_events_resource(platform) ==
  IF Bit(platform.cpuid7_ebx, 12) = 0 THEN no_mon(PQOS_RETVAL_RESOURCE)
  ELSE IF Bit(platform.cpuidf0.edx, 1) = 0 THEN no_mon(PQOS_RETVAL_RESOURCE)
  ELSE IF get_cache_info(platform.l3cache).ret # PQOS_RETVAL_OK
  THEN no_mon(PQOS_RETVAL_ERROR)
  ELSE IF rdt_events(platform.cpuidf1.edx) = 0 THEN no_mon(PQOS_RETVAL_RESOURCE)
  ELSE IF ~platform.mon_malloc_ok THEN no_mon(PQOS_RETVAL_RESOURCE)
  ELSE discover_monitoring_fill(platform, all_events(platform))

\* discover_monitoring(r_mon, cpu); sized is the count the array was sized for
discover_monitoring(platform) ==
  IF Bit(platform.cpuid7_ebx, 12) = 0 THEN no_mon(PQOS_RETVAL_RESOURCE)
  ELSE IF Bit(platform.cpuidf0.edx, 1) = 0 THEN no_mon(PQOS_RETVAL_RESOURCE)
  ELSE IF get_cache_info(platform.l3cache).ret # PQOS_RETVAL_OK
  THEN no_mon(PQOS_RETVAL_ERROR)
  ELSE IF rdt_events(platform.cpuidf1.edx) = 0 THEN no_mon(PQOS_RETVAL_ERROR)
  ELSE IF ~platform.mon_malloc_ok THEN no_mon(PQOS_RETVAL_RESOURCE)
  ELSE discover_monitoring_fill(platform, all_events(platform))

(***************************************************************************)
(* The platforms the library is initialised on, and the hooks called on    *)
(* what it discovered.                                                     *)
(***************************************************************************)
\* most partitions (sockets, L2 clusters) of a platform
MaxParts == 2
\* longest run of alternating hook calls that is followed
MaxRun == 3

\* A partition whose register reads CDP enabled, and one that reads disabled
PartOn == [core_ret |-> PQOS_RETVAL_OK, msr_ok |-> TRUE, reg |-> 1]
PartOff == [core_ret |-> PQOS_RETVAL_OK, msr_ok |-> TRUE, reg |-> 0]

\* What pqos_cpu_get_sockets / pqos_cpu_get_l2ids and the reads can give: no
\* list, partitions that all answer, a core that is not found, a failing read
Partitions ==
  {NULL}
  \cup {Ptr(p) : p \in UNION {[1..n -> {PartOn, PartOff}] : n \in 1..MaxParts}}
  \cup {Ptr(<<[core_ret |-> PQOS_RETVAL_ERROR, msr_ok |-> TRUE, reg |-> 0]>>),
        Ptr(<<PartOn, [core_ret |-> PQOS_RETVAL_OK, msr_ok |-> FALSE, reg |-> 0]>>)}

\* RDT with L3 CAT, L2 CAT (both with CDP, switched off) and linear MBA
HwDefault ==
  [cpuid7_ebx |-> 2 ^ 15 + 2 ^ 12, cpuid10_ebx |-> 14,
   cpuidf0 |-> [ebx |-> 15, edx |-> 2],
   cpuidf1 |-> [ebx |-> 1, ecx |-> 15, edx |-> 1],
   cpuida |-> [eax |-> 0, ebx |-> 1, edx |-> 0],
   l3 |-> [eax |-> 11, ebx |-> 0, ecx |-> 4, edx |-> 15],
   l2 |-> [eax |-> 7, ebx |-> 0, ecx |-> 4, edx |-> 7],
   mba |-> [eax |-> 89, ecx |-> 4, edx |-> 7],
   sockets |-> Ptr(<<PartOff>>), l2ids |-> Ptr(<<PartOff>>),
   ext_leaves |-> 8, brand_match |-> FALSE, mask_msrs |-> 0,
   l3cache |-> [detected |-> 1, num_ways |-> 12, total_size |-> 1020],
   l2cache |-> [detected |-> 1, num_ways |-> 8, total_size |-> 256],
   malloc_ok |-> TRUE, mon_malloc_ok |-> TRUE,
   os_mba_ctrl |-> InDefault.mba_ctrl]

\* What os_cap_get_mba_ctrl answers when it succeeds: the controller is
\* supported (1), not supported (0) or of unknown support (-1), and it is in
\* use only where it is supported
OsMbaCtrl ==
  {[ret |-> PQOS_RETVAL_OK, ctrl |-> c, ctrl_on |-> 0] : c \in {-1, 0, 1}}
  \cup {[ret |-> PQOS_RETVAL_OK, ctrl |-> 1, ctrl_on |-> 1]}

\* The platforms: each family varies what one probe reads
Platforms ==
  {[HwDefault EXCEPT !.l3.edx = e, !.l3.ecx = c, !.sockets = s] :
     e \in {15, 14}, c \in {4, 0}, s \in Partitions}
  \cup {[HwDefault EXCEPT !.l2.edx = e, !.l2ids = s] :
          e \in {7, 6}, s \in Partitions}
  \cup {[HwDefault EXCEPT !.cpuid10_ebx = b, !.mba.ecx = c,
                          !.cpuid7_ebx = 2 ^ 15 + m] :
          b \in {14, 12, 10, 8, 6}, c \in {4, 0}, m \in {2 ^ 12, 0}}
  \cup {[HwDefault EXCEPT !.cpuid7_ebx = 2 ^ 12 * d, !.ext_leaves = x,
                          !.brand_match = b, !.mask_msrs = n,
                          !.l3cache.detected = d] :
          x \in {2, 8}, b \in BOOLEAN, n \in {0, 2, 130}, d \in {0, 1}}
  \cup {[HwDefault EXCEPT !.cpuid7_ebx = 2 ^ 12, !.l3cache.detected = 0]}
  \cup {[HwDefault EXCEPT !.cpuid7_ebx = 2 ^ 12, !.cpuidf1.edx = e,
                          !.cpuida = [eax |-> 256 * x, ebx |-> 1 - b, edx |-> 1 + b]] :
          e \in 0..7, x \in {1, 2}, b \in {0, 1}}
  \cup {[HwDefault EXCEPT !.cpuidf1.edx = 0,
                          !.cpuida = [eax |-> 512, ebx |-> 0, edx |-> 2]]}
  \cup {[HwDefault EXCEPT !.cpuidf0.edx = 0],
        [HwDefault EXCEPT !.mon_malloc_ok = FALSE]}
  \cup {[HwDefault EXCEPT !.l3.edx = 0],
        [HwDefault EXCEPT !.l3.edx = AllOnes],
        [HwDefault EXCEPT !.l2.edx = 0, !.l2ids = Ptr(<<PartOn>>)]}
  \cup {[HwDefault EXCEPT !.l2cache.detected = 0],
        [HwDefault EXCEPT !.malloc_ok = FALSE]}
  \cup {[HwDefault EXCEPT !.os_mba_ctrl = a] : a \in OsMbaCtrl}

\* What pqos_init is answered on a platform: under the MSR interface the
\* allocation probes read the hardware, under the OS interface the OS layer
\* answers
HwInitInputs(platform) ==
  {[config |-> Ptr([interface |-> PQOS_INTER_MSR]),
    mon |-> discover_monitoring(platform),
    l3ca |-> discover_alloc_l3(platform),
    l2ca |-> discover_alloc_l2(platform),
    mba |-> discover_alloc_mba(platform)] @@ InDefault,
   [config |-> Ptr([interface |-> PQOS_INTER_OS]),
    mba_ctrl |-> platform.os_mba_ctrl] @@ InDefault,
   [config |-> Ptr([interface |-> PQOS_INTER_OS_RESCTRL_MON]),
    mba_ctrl |-> platform.os_mba_ctrl] @@ InDefault,
   [config |-> Ptr([interface |-> PQOS_INTER_OS]),
    alloc_ret |-> PQOS_RETVAL_BUSY] @@ InDefault}

\* No hook has been called since the library was initialised
NoHook == [kind |-> "none", arg |-> "none", pre |-> NULL, n |-> 0, orig |-> 0]

\* A CDP hook is called: n counts the calls of the run ON, OFF, ON, ... it
\* continues or starts on a record with CDP off, orig keeps the num_classes
\* the run started from
HookCalled(type, kind, arg) ==
  LET i == IF m_cap = NULL THEN 0 ELSE FindCap(Deref(m_cap), type)
      next == IF hooks.n % 2 = 0 THEN "PQOS_REQUIRE_CDP_ON"
              ELSE "PQOS_REQUIRE_CDP_OFF"
  IN IF type # PQOS_CAP_TYPE_MBA /\ hooks.kind = kind /\ hooks.n > 0
        /\ hooks.n < MaxRun /\ arg = next
     THEN [hooks EXCEPT !.arg = arg, !.pre = m_cap, !.n = @ + 1]
     ELSE IF type # PQOS_CAP_TYPE_MBA /\ i # 0 /\ arg = "PQOS_REQUIRE_CDP_ON"
             /\ Deref(m_cap).capabilities[i].u.cdp_on = 0
     THEN [kind |-> kind, arg |-> arg, pre |-> m_cap, n |-> 1,
           orig |-> Deref(m_cap).capabilities[i].u.num_classes]
     ELSE [kind |-> kind, arg |-> arg, pre |-> m_cap, n |-> 0, orig |-> 0]

\* The registry after a hook; nothing else changes
HookReturns(g, h) ==
  /\ m_cap' = g.m_cap
  /\ hooks' = h
  /\ UNCHANGED <<m_cpu, m_init_done, m_apilock, m_apilock_mutex, m_interface,
                 lock_fds, lockf_held, comp, heap, last, proc, thr, hw>>

\* pqos_init(config) on the platform
HwPqosInit ==
  /\ m_init_done = 0
  /\ \E in \in HwInitInputs(hw) :
       LET r == pqos_init(Globals, in)
       IN CallReturns("pqos_init", in, r.g, r.ret, Unwritten)
  /\ hooks' = NoHook
  /\ UNCHANGED <<proc, thr, hw>>

\* pqos_fini() of the library initialised on the platform
HwPqosFini ==
  /\ m_init_done = 1
  /\ LET r == pqos_fini(Globals, InDefault)
     IN CallReturns("pqos_fini", InDefault, r.g, r.ret, Unwritten)
  /\ hooks' = NoHook
  /\ UNCHANGED <<proc, thr, hw>>

HwL3cdpChange ==
  \E cdp \in {"PQOS_REQUIRE_CDP_ANY", "PQOS_REQUIRE_CDP_ON", "PQOS_REQUIRE_CDP_OFF"} :
    HookReturns(_pqos_cap_l3cdp_change(Globals, cdp),
                HookCalled(PQOS_CAP_TYPE_L3CA, "l3cdp", cdp))

HwL2cdpChange ==
  \E cdp \in {"PQOS_REQUIRE_CDP_ANY", "PQOS_REQUIRE_CDP_ON", "PQOS_REQUIRE_CDP_OFF"} :
    HookReturns(_pqos_cap_l2cdp_change(Globals, cdp),
                HookCalled(PQOS_CAP_TYPE_L2CA, "l2cdp", cdp))

HwMbaChange ==
  \E cfg \in {"PQOS_MBA_ANY", "PQOS_MBA_DEFAULT", "PQOS_MBA_CTRL"} :
    HookReturns(_pqos_cap_mba_change(Globals, cfg),
                HookCalled(PQOS_CAP_TYPE_MBA, "mba", cfg))

InitHw ==
  /\ m_cap = NULL
  /\ m_cpu = NULL
  /\ m_init_done = 0
  /\ m_apilock = -1
  /\ m_apilock_mutex = "invalid"
  /\ m_interface = PQOS_INTER_MSR
  /\ lock_fds = {}
  /\ lockf_held = FALSE
  /\ comp = ProcStart.comp
  /\ heap = 0
  /\ last = NoCall
  /\ proc = <<>>
  /\ thr = <<>>
  /\ hw \in Platforms
  /\ hooks = NoHook

NextHw == HwPqosInit \/ HwPqosFini \/ HwL3cdpChange \/ HwL2cdpChange \/ HwMbaChange

SpecHw == InitHw /\ [][NextHw]_vars

(***************************************************************************)
(* Properties.  `last` is the call that has just returned: its arguments,  *)
(* the static state before it (last.pre), its return value, the calls it   *)
(* made (last.trace) and what its discover_capabilities() did (last.dc).   *)
(***************************************************************************)
\* pqos_init has just returned
InitReturned == last.op = "pqos_init"

\* The call was given a usable configuration that RDT_IFACE does not refuse
ArgsAccepted ==
  /\ last.config # NULL
  /\ Deref(last.config).interface \in Interfaces
  /\ ~rdt_iface_mismatch(last.env, Deref(last.config).interface)

\* The call made this call (of a collaborator)
Made(name) == \E i \in 1..Len(last.trace) : last.trace[i].call = name

\* The call made this call and it returned ret
MadeWith(name, ret) ==
  \E i \in 1..Len(last.trace) : last.trace[i] = [call |-> name, ret |-> ret]

\* pqos_init got past _pqos_api_init(): it took the lock
InitLocked == InitReturned /\ Made("_pqos_api_lock")

\* The lock is held in neither tier
LockFree == ~lockf_held /\ m_apilock_mutex # "locked"

\* C1: pqos_init (valid config, no RDT_IFACE mismatch) called while the library
\* is Initialized returns PQOS_RETVAL_INIT.
C1_SecondInitReturnsInit ==
  (InitReturned /\ ArgsAccepted /\ last.pre.m_init_done = 1)
    => last.ret = PQOS_RETVAL_INIT

\* C2: a pqos_init rejected because the library is already Initialized changes
\* nothing: m_init_done stays 1, m_cap, m_cpu and the registry records are
\* those of before, the lock handle stays open and unlocked.
C2_RejectedInitChangesNothing ==
  (InitReturned /\ ArgsAccepted /\ last.pre.m_init_done = 1)
    => /\ last.ret # PQOS_RETVAL_OK
       /\ Snapshot(Globals) = last.pre
       /\ m_init_done = 1
       /\ m_cap # NULL /\ m_cpu # NULL
       /\ m_apilock # -1 /\ m_apilock \in lock_fds
       /\ m_apilock_mutex = "unlocked" /\ ~lockf_held

C2_Witness ==
  /\ InitReturned /\ ArgsAccepted /\ last.pre.m_init_done = 1
  /\ last.ret # PQOS_RETVAL_OK
  /\ Deref(m_cap).num_cap = 4

\* C3: a pqos_init that fails after _pqos_api_init() succeeded (a collaborator
\* failed, discovery failed, pqos_alloc_init returned BUSY, or nothing could be
\* initialised) leaves m_cap = NULL, m_cpu = NULL, m_init_done = 0,
\* m_apilock = -1 and the lock not held, as they were before the call.
C3_FailedInitRestoresState ==
  (InitLocked /\ last.ret # PQOS_RETVAL_OK)
    => /\ m_cap = NULL /\ m_cpu = NULL /\ m_init_done = 0 /\ m_apilock = -1
       /\ LockFree
       /\ lock_fds = {}
       /\ m_cap = last.pre.m_cap /\ m_cpu = last.pre.m_cpu
       /\ m_init_done = last.pre.m_init_done /\ m_apilock = last.pre.m_apilock
       /\ lock_fds = last.pre.lock_fds /\ lockf_held = last.pre.lockf_held

\* a failure late in the call: the registry was built, then pqos_alloc_init
\* returned BUSY
C3_Witness ==
  /\ InitLocked /\ last.ret = PQOS_RETVAL_BUSY
  /\ last.dc # NULL /\ Deref(last.dc).written
  /\ m_cap = NULL /\ m_apilock = -1

\* C4: when pqos_init fails after pqos_alloc_init() succeeded, every component
\* constructed during the call (allocation, machine, cpuinfo, log, registry) has
\* been finalised before it returns.
C4_FailedInitFinalisesAll ==
  (InitLocked /\ last.ret # PQOS_RETVAL_OK
     /\ MadeWith("pqos_alloc_init", PQOS_RETVAL_OK) /\ ~last.pre.comp.alloc)
    => /\ ~comp.alloc /\ ~comp.machine /\ ~comp.cpuinfo /\ ~comp.log
       /\ m_cap = NULL /\ heap = 0

\* The return codes of the probes discover_capabilities called, in call order
ProbeRets ==
  LET calls == Deref(last.dc).calls
  IN [i \in 1..(IF Len(calls) < 4 THEN Len(calls) ELSE 4) |-> calls[i].ret]

\* C5: if all four probes return RESOURCE, discover_capabilities returns ERROR,
\* pqos_init fails with an error and the library stays Uninitialized.
C5_NothingDiscoveredFails ==
  (InitReturned /\ last.dc # NULL
     /\ ProbeRets = [i \in 1..4 |-> PQOS_RETVAL_RESOURCE])
    => /\ Deref(last.dc).ret = PQOS_RETVAL_ERROR
       /\ ~Deref(last.dc).written
       /\ last.ret = PQOS_RETVAL_ERROR
       /\ m_init_done = 0 /\ m_cap = NULL

C5_Witness ==
  /\ InitReturned /\ last.dc # NULL
  /\ ProbeRets = [i \in 1..4 |-> PQOS_RETVAL_RESOURCE]
  /\ last.ret = PQOS_RETVAL_ERROR

\* The kinds of record, in the order discover_capabilities probes for them
KindOrder == <<PQOS_CAP_TYPE_MON, PQOS_CAP_TYPE_L3CA, PQOS_CAP_TYPE_L2CA,
               PQOS_CAP_TYPE_MBA>>

\* The kinds whose probe returned OK, in probing order
FoundKinds ==
  LET pick(i) == IF ProbeRets[i] = PQOS_RETVAL_OK THEN <<KindOrder[i]>> ELSE <<>>
  IN pick(1) \o pick(2) \o pick(3) \o pick(4)

\* The kinds of the records of the registry, in registry order
RegistryKinds ==
  [i \in 1..Len(Deref(m_cap).capabilities) |-> Deref(m_cap).capabilities[i].type]

\* C6: after a successful pqos_init the registry holds 1 to 4 records, at most
\* one per kind, in the order Monitoring, L3, L2, MBA, and a record for exactly
\* the probes that returned OK; a probe that returned RESOURCE is left out and
\* the probes after it still run.
C6_RegistryHoldsWhatWasFound ==
  (InitReturned /\ last.ret = PQOS_RETVAL_OK)
    => /\ m_cap # NULL /\ last.dc # NULL
       /\ DOMAIN ProbeRets = 1..4
       /\ \A i \in 1..4 : ProbeRets[i] \in {PQOS_RETVAL_OK, PQOS_RETVAL_RESOURCE}
       /\ Deref(m_cap).num_cap \in 1..4
       /\ Deref(m_cap).num_cap = Len(Deref(m_cap).capabilities)
       /\ RegistryKinds = FoundKinds
       /\ \A i, j \in DOMAIN RegistryKinds :
            i # j => RegistryKinds[i] # RegistryKinds[j]

\* L3 is not present, and the L2 probe after it ran and its record is there
C6_Witness ==
  /\ InitReturned /\ last.ret = PQOS_RETVAL_OK
  /\ ProbeRets = <<PQOS_RETVAL_OK, PQOS_RETVAL_RESOURCE, PQOS_RETVAL_OK,
                   PQOS_RETVAL_RESOURCE>>
  /\ RegistryKinds = <<PQOS_CAP_TYPE_MON, PQOS_CAP_TYPE_L2CA>>

\* Probe number i was called and returned neither OK nor RESOURCE
FatalProbe(i) ==
  i \in DOMAIN ProbeRets /\ ProbeRets[i] \notin {PQOS_RETVAL_OK, PQOS_RETVAL_RESOURCE}

\* C7: if a probe returns a code other than OK or RESOURCE, discover_capabilities
\* returns ERROR without running the remaining probes, frees every descriptor
\* already produced and does not write *p_cap: m_cap never shows a partly built
\* registry.
C7_FatalProbeStopsDiscovery ==
  (InitReturned /\ last.dc # NULL /\ \E i \in 1..4 : FatalProbe(i))
    => /\ Deref(last.dc).ret = PQOS_RETVAL_ERROR
       /\ FatalProbe(Len(Deref(last.dc).calls))
       /\ \A i \in 1..(Len(Deref(last.dc).calls) - 1) : ~FatalProbe(i)
       /\ ~Deref(last.dc).written
       /\ Deref(last.dc).freed = Deref(last.dc).produced
       /\ heap = last.pre.heap
       /\ m_cap = NULL
       /\ last.ret = PQOS_RETVAL_ERROR

\* two descriptors were produced before the L2 probe failed
C7_Witness ==
  /\ InitReturned /\ last.dc # NULL
  /\ DOMAIN ProbeRets = 1..3 /\ FatalProbe(3)
  /\ Deref(last.dc).produced = 2 /\ Deref(last.dc).freed = 2
  /\ m_cap = NULL

\* C8: pqos_fini called while Uninitialized returns PQOS_RETVAL_INIT and leaves
\* m_init_done = 0, m_cap = NULL, m_cpu = NULL, m_apilock = -1.
C8_FiniUninitialized ==
  (last.op = "pqos_fini" /\ last.pre.m_init_done = 0)
    => /\ last.ret = PQOS_RETVAL_INIT
       /\ m_init_done = 0 /\ m_cap = NULL /\ m_cpu = NULL /\ m_apilock = -1

C8_Witness ==
  /\ last.op = "pqos_fini" /\ last.pre.m_init_done = 0
  /\ last.ret = PQOS_RETVAL_INIT /\ m_apilock = -1

\* C9: pqos_fini called while Initialized ends with the library Uninitialized,
\* the registry and its records released (m_cap = NULL, m_cpu = NULL,
\* m_init_done = 0) and both lock tiers released and torn down
\* (m_apilock = -1), whichever of cpuinfo_fini, machine_fini, log_fini failed.
C9_FiniAlwaysUninitializes ==
  (last.op = "pqos_fini" /\ last.pre.m_init_done = 1)
    => /\ m_init_done = 0 /\ m_cap = NULL /\ m_cpu = NULL
       /\ heap = 0
       /\ m_apilock = -1 /\ lock_fds = {}
       /\ ~lockf_held /\ m_apilock_mutex = "invalid"
       /\ Made("cpuinfo_fini") /\ Made("machine_fini") /\ Made("log_fini")

\* all three of cpuinfo_fini, machine_fini and log_fini failed
C9_Witness ==
  /\ last.op = "pqos_fini" /\ last.pre.m_init_done = 1
  /\ MadeWith("cpuinfo_fini", -1)
  /\ MadeWith("machine_fini", PQOS_RETVAL_ERROR)
  /\ MadeWith("log_fini", PQOS_RETVAL_ERROR)
  /\ m_init_done = 0 /\ m_apilock = -1

\* C10: pqos_cap_get with at least one non-NULL output, called while the library
\* is Uninitialized, returns PQOS_RETVAL_INIT and writes neither *cap nor *cpu.
C10_CapGetUninitialized ==
  (last.op = "pqos_cap_get" /\ last.pre.m_init_done = 0
     /\ (last.cap_arg # NULL \/ last.cpu_arg # NULL))
    => /\ last.ret = PQOS_RETVAL_INIT
       /\ ~last.out.cap.written /\ ~last.out.cpu.written

C10_Witness ==
  /\ last.op = "pqos_cap_get" /\ last.pre.m_init_done = 0
  /\ last.cap_arg # NULL /\ last.cpu_arg # NULL
  /\ last.ret = PQOS_RETVAL_INIT

(***************************************************************************)
(* A lock that could not be taken.                                         *)
(***************************************************************************)
\* The answers the last call got, but with the lock primitives succeeding
LockAcquired == [last.in EXCEPT !.lockf_ok = TRUE, !.mutex_lock_ok = TRUE]

\* The last call made again from the state it started in, with these answers
Recall(in) ==
  LET g == last.pre @@ [trace |-> <<>>, dc |-> NULL]
  IN CASE last.op = "pqos_init" -> pqos_init(g, in) @@ [out |-> Unwritten]
       [] last.op = "pqos_fini" -> pqos_fini(g, in) @@ [out |-> Unwritten]
       [] OTHER -> pqos_cap_get(g, Unwritten, in)

\* What a call did besides taking the lock: the calls of its critical section
CriticalSection(trace) ==
  SelectSeq(trace, LAMBDA c : c.call # "_pqos_api_lock")

\* The last call failed to take the lock, in a state where it can be taken
LockFailed ==
  /\ MadeWith("_pqos_api_lock", 1)
  /\ \E i \in 1..Len(Recall(LockAcquired).g.trace) :
       Recall(LockAcquired).g.trace[i] = [call |-> "_pqos_api_lock", ret |-> 0]

\* C14: a call in which _pqos_api_lock() fails to take either tier of the
\* lock still runs its critical section, makes the calls, returns the status
\* and writes the outputs it would have with the lock acquired.
C14_LockFailureOnlyLogged ==
  LockFailed
    => /\ last.ret = Recall(LockAcquired).ret
       /\ last.out = Recall(LockAcquired).out
       /\ CriticalSection(last.trace) = CriticalSection(Recall(LockAcquired).g.trace)

\* pqos_fini shuts an initialised library down although neither tier of the
\* lock could be taken
C14_Witness ==
  /\ LockFailed
  /\ last.op = "pqos_fini"
  /\ ~last.in.lockf_ok /\ ~last.in.mutex_lock_ok
  /\ last.pre.m_init_done = 1
  /\ Made("log_fini")
  /\ last.ret = PQOS_RETVAL_OK
  /\ m_init_done = 0

(***************************************************************************)
(* Properties of the lock, over the threads of SpecMT.                     *)
(***************************************************************************)
\* The order of the lock primitives in one call, as the two tiers are meant to
\* be taken and given back
ReverseOrder == <<"lockf F_LOCK", "pthread_mutex_lock",
                  "pthread_mutex_unlock", "lockf F_ULOCK">>

\* Thread t is between _pqos_api_lock() and _pqos_api_unlock(), and no lock
\* primitive of its call has failed
InLockedRegion(t) == thr[t].pc \in {"locked", "init_unwind"} /\ ~thr[t].err

\* C11: _pqos_api_lock takes the file lock first and the mutex second, and
\* _pqos_api_unlock gives them back in the reverse order: the mutex first, then
\* the file lock.
C11_LockOrderReversedOnUnlock ==
  \A t \in DOMAIN thr :
    (~thr[t].err /\ ~thr[t].ub)
      => /\ Len(thr[t].log) <= Len(ReverseOrder)
         /\ \A i \in 1..Len(thr[t].log) : thr[t].log[i] = ReverseOrder[i]

\* C12: among the threads of one process (lock primitives not failing) at most
\* one at a time is between _pqos_api_lock and _pqos_api_unlock.
C12_OneThreadInLockedRegion ==
  \A t, u \in DOMAIN thr :
    (t # u /\ ProcOf(t) = ProcOf(u)) => ~(InLockedRegion(t) /\ InLockedRegion(u))

\* C13: with several processes, each possibly with several threads, threads
\* of two different processes are never both inside a locked region (no lock
\* primitive failing, and none used on a mutex that is not in a state to be used).
C13_OneProcessInLockedRegion ==
  (\A t \in DOMAIN thr : ~thr[t].ub)
    => \A t, u \in DOMAIN thr :
         ProcOf(t) # ProcOf(u) => ~(InLockedRegion(t) /\ InLockedRegion(u))

(***************************************************************************)
(* Discovery on a platform, and the mutation hooks.                        *)
(***************************************************************************)
\* The descriptor of the first record of a type in a registry, NULL if the
\* registry has none
CapOf(cap, type) ==
  IF cap = NULL \/ FindCap(Deref(cap), type) = 0 THEN NULL
  ELSE Ptr(Deref(cap).capabilities[FindCap(Deref(cap), type)].u)

\* The library was initialised under the MSR interface, which reads the hardware
MsrInit ==
  /\ last.op = "pqos_init"
  /\ Deref(last.in.config).interface = PQOS_INTER_MSR

\* A non-empty list of partitions whose lookups and register reads all succeed
AllAnswer(parts) ==
  /\ parts # NULL
  /\ Len(Deref(parts)) > 0
  /\ \A j \in 1..Len(Deref(parts)) :
       Deref(parts)[j].core_ret = PQOS_RETVAL_OK /\ Deref(parts)[j].msr_ok

\* Some partition reads this value in the CDP bit of its register
SomeReads(parts, bit) ==
  \E j \in 1..Len(Deref(parts)) : Bit(Deref(parts)[j].reg, 0) = bit

\* What C15 says of the answer e the validator gives on these partitions
Validated(parts, e) ==
  /\ e.ret = PQOS_RETVAL_ERROR <=> (SomeReads(parts, 1) /\ SomeReads(parts, 0))
  /\ e.ret # PQOS_RETVAL_ERROR
       => /\ e.ret = PQOS_RETVAL_OK
          /\ e.enabled = 1 <=> ~SomeReads(parts, 0)
  /\ e.ret = PQOS_RETVAL_ERROR => e.enabled # 1

\* C15: on a non-empty set of partitions that all answer, l3cdp_is_enabled and
\* l2cdp_is_enabled return ERROR exactly when some partition reads enabled and
\* some disabled; otherwise OK with *enabled = 1 exactly when all read enabled;
\* with ERROR *enabled is not 1.
C15_MixedPartitionsAreAnError ==
  /\ AllAnswer(hw.sockets) => Validated(hw.sockets, l3cdp_is_enabled(hw.sockets))
  /\ AllAnswer(hw.l2ids) => Validated(hw.l2ids, l2cdp_is_enabled(hw.l2ids, 0))

\* The L3 probe has met two sockets that disagree and stopped the discovery
C15_Witness ==
  /\ MsrInit
  /\ AllAnswer(hw.sockets)
  /\ SomeReads(hw.sockets, 1) /\ SomeReads(hw.sockets, 0)
  /\ MadeWith("discover_alloc_l3", PQOS_RETVAL_ERROR)
  /\ last.ret = PQOS_RETVAL_ERROR

\* The type of record a hook works on
HookType ==
  CASE hooks.kind = "l3cdp" -> PQOS_CAP_TYPE_L3CA
    [] hooks.kind = "l2cdp" -> PQOS_CAP_TYPE_L2CA
    [] OTHER -> PQOS_CAP_TYPE_MBA

\* C16: after N alternating calls ON, OFF, ON, ... of a CDP hook on a record
\* that had CDP off and an even num_classes > 0, num_classes is the original
\* value exactly when N is even and cdp_on is 1 exactly when N is odd.
C16_AlternatingCallsRoundTrip ==
  (hooks.n > 0 /\ hooks.orig > 0 /\ hooks.orig % 2 = 0)
    => /\ Deref(CapOf(m_cap, HookType)).num_classes = hooks.orig <=> hooks.n % 2 = 0
       /\ Deref(CapOf(m_cap, HookType)).cdp_on = 1 <=> hooks.n % 2 = 1

\* ON, OFF on an L2 record of 8 classes: 8 again
C16_Witness ==
  /\ hooks.kind = "l2cdp"
  /\ hooks.n = 2
  /\ hooks.orig = 8
  /\ Deref(CapOf(m_cap, PQOS_CAP_TYPE_L2CA)).num_classes = 8
  /\ Deref(CapOf(m_cap, PQOS_CAP_TYPE_L2CA)).cdp_on = 0

\* C17: a CDP hook asked to turn CDP on for a record (of a resource that
\* supports CDP) with an odd num_classes does not store the truncated
\* num_classes / 2.
C17_OddClassesNotTruncated ==
  (/\ hooks.kind \in {"l3cdp", "l2cdp"}
   /\ hooks.arg = "PQOS_REQUIRE_CDP_ON"
   /\ CapOf(hooks.pre, HookType) # NULL
   /\ Deref(CapOf(hooks.pre, HookType)).cdp = 1
   /\ Deref(CapOf(hooks.pre, HookType)).cdp_on = 0
   /\ Deref(CapOf(hooks.pre, HookType)).num_classes % 2 = 1)
    => Deref(CapOf(m_cap, HookType)).num_classes
         # Deref(CapOf(hooks.pre, HookType)).num_classes \div 2

\* The mode the last hook call asked for held before the call
ModeHeld ==
  /\ CapOf(hooks.pre, HookType) # NULL
  /\ \/ hooks.arg = "PQOS_REQUIRE_CDP_ON" /\ Deref(CapOf(hooks.pre, HookType)).cdp_on = 1
     \/ hooks.arg = "PQOS_REQUIRE_CDP_OFF" /\ Deref(CapOf(hooks.pre, HookType)).cdp_on = 0
     \/ hooks.arg = "PQOS_MBA_CTRL" /\ Deref(CapOf(hooks.pre, HookType)).ctrl_on = 1
     \/ hooks.arg = "PQOS_MBA_DEFAULT" /\ Deref(CapOf(hooks.pre, HookType)).ctrl_on = 0

\* The last hook called once more with the same argument
HookAgain ==
  CASE hooks.kind = "l3cdp" -> _pqos_cap_l3cdp_change(Globals, hooks.arg)
    [] hooks.kind = "l2cdp" -> _pqos_cap_l2cdp_change(Globals, hooks.arg)
    [] OTHER -> _pqos_cap_mba_change(Globals, hooks.arg)

DirectCdp(res, parts, leaf) ==
  /\ Bit(hw.cpuid7_ebx, 15) = 1
  /\ Bit(hw.cpuid10_ebx, res) = 1
  /\ Bit(leaf.ecx, PQOS_CPUID_CAT_CDP_BIT) = 1
  /\ AllAnswer(parts)

\* What C19 says of the record of a type found by CPUID with raw class count
\* leaf.edx + 1
Discovered(type, kind, parts, leaf) ==
  (MsrInit /\ CapOf(m_cap, type) # NULL)
    => /\ (hooks = NoHook /\ ~SomeReads(parts, 1))
            => /\ Deref(CapOf(m_cap, type)).cdp_on = 0
               /\ Deref(CapOf(m_cap, type)).num_classes = leaf.edx + 1
       /\ (hooks = NoHook /\ ~SomeReads(parts, 0))
            => /\ Deref(CapOf(m_cap, type)).cdp_on = 1
               /\ Deref(CapOf(m_cap, type)).num_classes = (leaf.edx + 1) \div 2
       /\ (/\ ~SomeReads(parts, 1)
           /\ hooks.kind = kind /\ hooks.arg = "PQOS_REQUIRE_CDP_ON")
            => Deref(CapOf(m_cap, type)).num_classes = (leaf.edx + 1) \div 2

\* C19: an L3 or L2 record discovered through CPUID leaf 0x10 with the CDP bit
\* set and raw class count R has cdp_on = 0 and num_classes = R when every
\* partition reads CDP disabled, cdp_on = 1 and num_classes = R / 2 when every
\* partition reads enabled; the CDP hook called with ON on the disabled
\* record leaves num_classes = R / 2.
C19_DirectDiscoveryHalvesUnderCdp ==
  /\ DirectCdp(PQOS_RES_ID_L3_ALLOCATION, hw.sockets, hw.l3)
       => Discovered(PQOS_CAP_TYPE_L3CA, "l3cdp", hw.sockets, hw.l3)
  /\ DirectCdp(PQOS_RES_ID_L2_ALLOCATION, hw.l2ids, hw.l2)
       => Discovered(PQOS_CAP_TYPE_L2CA, "l2cdp", hw.l2ids, hw.l2)

\* R = 16 with CDP off: 16 classes were discovered and the hook has made them 8
C19_Witness ==
  /\ MsrInit
  /\ DirectCdp(PQOS_RES_ID_L3_ALLOCATION, hw.sockets, hw.l3)
  /\ hw.l3.edx + 1 = 16
  /\ ~SomeReads(hw.sockets, 1)
  /\ hooks.kind = "l3cdp" /\ hooks.arg = "PQOS_REQUIRE_CDP_ON"
  /\ Deref(CapOf(hooks.pre, PQOS_CAP_TYPE_L3CA)).num_classes = 16
  /\ Deref(CapOf(hooks.pre, PQOS_CAP_TYPE_L3CA)).cdp_on = 0
  /\ Deref(CapOf(m_cap, PQOS_CAP_TYPE_L3CA)).num_classes = 8
  /\ Deref(CapOf(m_cap, PQOS_CAP_TYPE_L3CA)).cdp_on = 1

\* CPUID advertises MBA (allocation bit, MBA bit) with the linear bit clear
NonLinearMba ==
  /\ Bit(hw.cpuid7_ebx, 15) = 1
  /\ Bit(hw.cpuid10_ebx, PQOS_RES_ID_MB_ALLOCATION) = 1
  /\ Bit(hw.mba.ecx, 2) = 0

\* C20: on hardware that advertises MBA with the linear bit clear
\* discover_alloc_mba returns RESOURCE, the registry has no MBA record and
\* holds for the other three probes what they found; an MBA record that
\* discover_alloc_mba put into the registry has is_linear = 1.
C20_NonLinearMbaIsNotPresent ==
  MsrInit
    => /\ (NonLinearMba /\ Made("discover_alloc_mba"))
            => /\ MadeWith("discover_alloc_mba", PQOS_RETVAL_RESOURCE)
               /\ CapOf(m_cap, PQOS_CAP_TYPE_MBA) = NULL
               /\ (hooks = NoHook /\ last.ret = PQOS_RETVAL_OK)
                    => /\ CapOf(m_cap, PQOS_CAP_TYPE_MON) = last.in.mon.det
                       /\ CapOf(m_cap, PQOS_CAP_TYPE_L3CA) = last.in.l3ca.det
                       /\ CapOf(m_cap, PQOS_CAP_TYPE_L2CA) = last.in.l2ca.det
       /\ CapOf(m_cap, PQOS_CAP_TYPE_MBA) # NULL
            => Deref(CapOf(m_cap, PQOS_CAP_TYPE_MBA)).is_linear = 1

\* Non-linear MBA beside monitoring, L3 and L2 CAT: the library is initialised
\* with the three of them
C20_Witness ==
  /\ MsrInit
  /\ NonLinearMba
  /\ MadeWith("discover_alloc_mba", PQOS_RETVAL_RESOURCE)
  /\ last.ret = PQOS_RETVAL_OK
  /\ m_init_done = 1
  /\ Deref(m_cap).num_cap = 3
  /\ CapOf(m_cap, PQOS_CAP_TYPE_MBA) = NULL

(***************************************************************************)
(* The MBA hook and the interface the library was initialised with         *)
(***************************************************************************)
\* The interface selected at the last successful initialisation
SelectedInterface == Deref(last.in.config).interface

\* The MBA hook has just been called with cfg on a registry with an MBA record
MbaHook(cfg) ==
  /\ hooks.kind = "mba"
  /\ hooks.arg = cfg
  /\ CapOf(hooks.pre, PQOS_CAP_TYPE_MBA) # NULL

Names(environment, word) ==
  /\ Len(Deref(environment)) = Len(word)
  /\ strncasecmp(Deref(environment), word, Len(word)) = 0

\* RDT_IFACE is set and does not match the interface: it names OS and another
\* interface is requested, or MSR and another interface is requested, or it
\* has any other value
OverrideMismatch(environment, interface) ==
  /\ environment # NULL
  /\ IF Names(environment, <<"O", "S">>) THEN interface # PQOS_INTER_OS
     ELSE IF Names(environment, <<"M", "S", "R">>) THEN interface # PQOS_INTER_MSR
     ELSE TRUE

\* C22: when RDT_IFACE is set and does not match the requested interface,
\* pqos_init returns an error without creating or taking the lock and without
\* calling any collaborator, and leaves every global as it was.
C22_OverrideMismatchIsRefused ==
  (/\ last.op = "pqos_init"
   /\ last.config # NULL
   /\ OverrideMismatch(last.env, Deref(last.config).interface))
    => /\ last.ret # PQOS_RETVAL_OK
       /\ last.trace = <<>>
       /\ Snapshot(Globals) = last.pre

(***************************************************************************)
(* The lifecycle: Uninitialized and Initialized                            *)
(***************************************************************************)
\* The last call made as the first call of a freshly loaded library
FirstCall == pqos_init(NoCall.pre @@ [trace |-> <<>>, dc |-> NULL], last.in)

\* The lifecycle state of the library: the registry, the topology, the flag,
\* the lock handle with the descriptors open, whether either tier of the lock
\* is held, and the memory it holds
Lifecycle(g) ==
  [m_cap |-> g.m_cap, m_cpu |-> g.m_cpu, m_init_done |-> g.m_init_done,
   m_apilock |-> g.m_apilock, mutex_held |-> g.m_apilock_mutex = "locked",
   lock_fds |-> g.lock_fds, lockf_held |-> g.lockf_held, heap |-> g.heap]

\* C23: m_init_done changes only from 0 to 1, by a pqos_init that returns OK,
\* and from 1 to 0, by pqos_fini. A pqos_init made on an Uninitialized
\* library (which, after the first call, is one left by a pqos_fini, a failed
\* pqos_init or a rejected pqos_fini) finds m_apilock = -1, so the guard of
\* _pqos_api_init does not reject it, and it returns the value, makes the
\* calls and leaves the lifecycle state that the same call does as the first
\* call of the library.
C23_LifecycleRepeats ==
  /\ (last.op # "none" /\ m_init_done # last.pre.m_init_done)
       => \/ /\ last.pre.m_init_done = 0 /\ m_init_done = 1
             /\ last.op = "pqos_init" /\ last.ret = PQOS_RETVAL_OK
          \/ /\ last.pre.m_init_done = 1 /\ m_init_done = 0
             /\ last.op = "pqos_fini"
  /\ (last.op = "pqos_init" /\ last.ret = PQOS_RETVAL_OK)
       => last.pre.m_init_done = 0 /\ m_init_done = 1
  /\ (last.op = "pqos_init" /\ last.pre.m_init_done = 0)
       => /\ last.pre.m_apilock = -1
          /\ last.ret = FirstCall.ret
          /\ last.trace = FirstCall.g.trace
          /\ Lifecycle(Globals) = Lifecycle(FirstCall.g)
          /\ last.ret = PQOS_RETVAL_OK => m_interface = FirstCall.g.m_interface

\* The library is initialised again, under MSR, after it had been initialised
\* under the OS interface and shut down
C23_Witness ==
  /\ last.op = "pqos_init" /\ last.ret = PQOS_RETVAL_OK
  /\ last.pre.m_init_done = 0 /\ m_init_done = 1
  /\ last.pre.m_interface = PQOS_INTER_OS
  /\ last.pre.comp.alloc = FALSE
  /\ Deref(last.config).interface = PQOS_INTER_MSR
\* Thread t is inside pqos_init or pqos_fini
Inside(t) == thr[t].pc # "idle" /\ thr[t].op \in {"pqos_init", "pqos_fini"}

\* C24: in every state of a process in which none of its threads is inside
\* pqos_init or pqos_fini, m_init_done is 1 exactly when m_cap is not NULL and
\* exactly when m_cpu is not NULL.
C24_FlagRegistryTopologyAgree ==
  \A p \in DOMAIN proc :
    (\A t \in DOMAIN thr : ProcOf(t) = p => ~Inside(t))
      => /\ (proc[p].m_init_done = 1) <=> (proc[p].m_cap # NULL)
         /\ (proc[p].m_init_done = 1) <=> (proc[p].m_cpu # NULL)

(***************************************************************************)
(* The return values of pqos_init and pqos_fini                            *)
(***************************************************************************)
\* C25: a pqos_init that got as far as pqos_mon_init (discovery,
\* _pqos_utils_init and api_init succeeded, pqos_alloc_init did not return
\* BUSY) returns OK exactly when pqos_alloc_init or pqos_mon_init succeeded.
C25_OkIffOneModuleInitialised ==
  (last.op = "pqos_init" /\ Made("pqos_mon_init"))
    => (last.ret = PQOS_RETVAL_OK
          <=> (\/ MadeWith("pqos_alloc_init", PQOS_RETVAL_OK)
               \/ MadeWith("pqos_mon_init", PQOS_RETVAL_OK)))

\* The last call made this call and it failed
Failed(name) ==
  \E i \in 1..Len(last.trace) : last.trace[i].call = name /\ last.trace[i].ret # 0

\* _pqos_api_exit() of the last call, a pqos_fini on an Initialized library,
\* failed: what it returned on the state the release and the unlock left it
ExitFailed ==
  LET l == _pqos_api_lock(last.pre @@ [trace |-> <<>>, dc |-> NULL], last.in)
      r == pqos_fini_release(l, last.in)
  IN _pqos_api_exit(_pqos_api_unlock(r.g), last.in).ret # 0

\* The calls of the last call, in order, the lock left out
Shutdown == [i \in 1..Len(CriticalSection(last.trace)) |->
               CriticalSection(last.trace)[i].call]

\* C26: pqos_fini on an Initialized library returns something else than OK
\* exactly when cpuinfo_fini, machine_fini, log_fini or _pqos_api_exit failed
\* (a failure is not masked by a later success), and it skips no step: every
\* module is shut down, in order, and the lock is torn down.
C26_FiniReportsEveryFailure ==
  (last.op = "pqos_fini" /\ last.pre.m_init_done = 1)
    => /\ last.ret # PQOS_RETVAL_OK
            <=> (\/ Failed("cpuinfo_fini") \/ Failed("machine_fini")
                 \/ Failed("log_fini") \/ ExitFailed)
       /\ Shutdown = <<"pqos_mon_fini", "pqos_alloc_fini", "cpuinfo_fini",
                       "machine_fini", "log_fini">>
       /\ m_apilock = -1 /\ lock_fds = {}

\* cpuinfo_fini failed, everything after it succeeded, and pqos_fini does not
\* return OK
C26_Witness ==
  /\ last.op = "pqos_fini" /\ last.pre.m_init_done = 1
  /\ Failed("cpuinfo_fini")
  /\ MadeWith("machine_fini", PQOS_RETVAL_OK)
  /\ MadeWith("log_fini", PQOS_RETVAL_OK)
  /\ ~ExitFailed
  /\ last.ret # PQOS_RETVAL_OK

(***************************************************************************)
(* The fallback chain of the L3 allocation probe                           *)
(***************************************************************************)
\* The library was initialised under MSR and discover_alloc_l3 got its memory
L3Probed == MsrInit /\ Made("discover_alloc_l3") /\ hw.malloc_ok

\* CPUID advertises allocation of this resource: the allocation bit of leaf
\* 0x7 and the bit of the resource in leaf 0x10
Advertised(res) ==
  Bit(hw.cpuid7_ebx, 15) = 1 /\ Bit(hw.cpuid10_ebx, res) = 1

\* The brand string is on the list of discover_alloc_l3_brandstr
BrandDetects == hw.ext_leaves >= 4 /\ hw.brand_match

\* discover_alloc_l3 ran the chain: the brand string first and, unless that
\* detected L3 CAT, the probing of the registers
ChainRun ==
  \/ last.in.l3ca.tried = <<"brandstr", "probe">>
  \/ last.in.l3ca.tried = <<"brandstr">> /\ BrandDetects

\* L2 CAT is not advertised and so not present, whatever the brand string
\* and the registers say
L2HasNoFallback ==
  (MsrInit /\ Made("discover_alloc_l2") /\ ~Advertised(PQOS_RES_ID_L2_ALLOCATION))
    => /\ MadeWith("discover_alloc_l2", PQOS_RETVAL_RESOURCE)
       /\ CapOf(m_cap, PQOS_CAP_TYPE_L2CA) = NULL

\* C27 as it is stated: whenever CPUID does not advertise L3 allocation,
\* discover_alloc_l3 runs the brand string and then the register probing
\* before it reports L3 CAT as not present; L2 has no fallback.
C27_FallbackWheneverNotAdvertised ==
  /\ (L3Probed /\ ~Advertised(PQOS_RES_ID_L3_ALLOCATION)) => ChainRun
  /\ L2HasNoFallback

\* C27, amended: discover_alloc_l3 runs the chain exactly when the allocation
\* bit of CPUID leaf 0x7 is clear, and then reports not present only after the
\* brand string and the probing both found nothing or with the cache geometry
\* missing; with that bit set and no L3 bit in leaf 0x10 it reports not
\* present on CPUID alone. L2 has no fallback.
C27_FallbackWithoutAllocationBit ==
  /\ (L3Probed /\ Bit(hw.cpuid7_ebx, 15) = 0)
       => /\ ChainRun
          /\ last.in.l3ca.ret = PQOS_RETVAL_RESOURCE
               => \/ /\ last.in.l3ca.tried = <<"brandstr", "probe">>
                     /\ hw.mask_msrs = 0
                  \/ hw.l3cache.detected = 0
  /\ (L3Probed /\ Bit(hw.cpuid7_ebx, 15) = 1)
       => /\ last.in.l3ca.tried = <<"cpuid">>
          /\ ~Advertised(PQOS_RES_ID_L3_ALLOCATION)
               => /\ last.in.l3ca.ret = PQOS_RETVAL_RESOURCE
                  /\ CapOf(m_cap, PQOS_CAP_TYPE_L3CA) = NULL
  /\ L2HasNoFallback

\* Without the allocation bit and with a brand string that is not on the
\* list, the probing found two classes: L3 CAT is in the registry, L2 CAT,
\* which CPUID advertises no more than L3 CAT, is not
C27_Witness ==
  /\ L3Probed /\ Bit(hw.cpuid7_ebx, 15) = 0
  /\ ~hw.brand_match
  /\ last.in.l3ca.tried = <<"brandstr", "probe">>
  /\ last.ret = PQOS_RETVAL_OK
  /\ CapOf(m_cap, PQOS_CAP_TYPE_L3CA) # NULL
  /\ Deref(CapOf(m_cap, PQOS_CAP_TYPE_L3CA)).num_classes = 2
  /\ MadeWith("discover_alloc_l2", PQOS_RETVAL_RESOURCE)
  /\ CapOf(m_cap, PQOS_CAP_TYPE_L2CA) = NULL

\* The chain detects L3 CAT: the brand string is on the list, or class 0 can
\* be probed
ChainDetects ==
  /\ L3Probed /\ Bit(hw.cpuid7_ebx, 15) = 0
  /\ (BrandDetects \/ hw.mask_msrs > 0)

\* The class count the chain finds: 4 for a listed brand string, else the
\* index of the first class that cannot be probed, at most 128
ChainClasses ==
  IF BrandDetects THEN 4
  ELSE IF hw.mask_msrs < 128 THEN hw.mask_msrs ELSE 128

\* C28: when the fallback chain detects L3 CAT and the L3 cache geometry is
\* not available, discover_alloc_l3 still delivers the L3 record, with the
\* class count the chain found and num_ways = 0, way_size = 0, and the
\* registry of the library this initialises has that record.
C28_RecordKeptWithoutGeometry ==
  (ChainDetects /\ hw.l3cache.detected = 0 /\ hooks = NoHook)
    => /\ last.in.l3ca.ret = PQOS_RETVAL_OK
       /\ last.in.l3ca.det # NULL
       /\ Deref(last.in.l3ca.det).num_classes = ChainClasses
       /\ Deref(last.in.l3ca.det).num_ways = 0
       /\ Deref(last.in.l3ca.det).way_size = 0
       /\ last.ret = PQOS_RETVAL_OK
             => CapOf(m_cap, PQOS_CAP_TYPE_L3CA) = last.in.l3ca.det

(***************************************************************************)
(* Failures of the CDP consistency check                                   *)
(***************************************************************************)
\* The consistency check over these partitions fails: their list cannot be
\* had, a core of one cannot be found, its register cannot be read, or they
\* disagree
CheckFails(parts) ==
  \/ parts = NULL
  \/ \E j \in 1..Len(Deref(parts)) :
       Deref(parts)[j].core_ret # PQOS_RETVAL_OK \/ ~Deref(parts)[j].msr_ok
  \/ SomeReads(parts, 1) /\ SomeReads(parts, 0)

\* The probe of this resource ran the consistency check: CPUID advertises the
\* resource with CDP
Checked(probe, res, leaf) ==
  /\ MsrInit /\ hw.malloc_ok /\ Made(probe)
  /\ Advertised(res)
  /\ Bit(leaf.ecx, PQOS_CPUID_CAT_CDP_BIT) = 1

\* C29: a failure inside the CDP consistency check of the L3 or of the L2
\* probe makes pqos_init fail; the library is never initialised without the
\* record of that probe.
C29_CheckFailureFailsInit ==
  /\ (/\ Checked("discover_alloc_l3", PQOS_RES_ID_L3_ALLOCATION, hw.l3)
      /\ CheckFails(hw.sockets))
       => last.ret # PQOS_RETVAL_OK /\ m_init_done = 0
  /\ (/\ Checked("discover_alloc_l2", PQOS_RES_ID_L2_ALLOCATION, hw.l2)
      /\ CheckFails(hw.l2ids))
       => last.ret # PQOS_RETVAL_OK /\ m_init_done = 0

(***************************************************************************)
(* The events of the monitoring record                                     *)
(***************************************************************************)
\* The order discover_monitoring adds the events in
EventOrder ==
  <<"PQOS_MON_EVENT_L3_OCCUP", "PQOS_MON_EVENT_TMEM_BW",
    "PQOS_MON_EVENT_LMEM_BW", "PQOS_MON_EVENT_RMEM_BW",
    "PQOS_PERF_EVENT_IPC", "PQOS_PERF_EVENT_LLC_MISS">>

\* The place of an event type in that order
Rank(type) == CHOOSE i \in 1..Len(EventOrder) : EventOrder[i] = type

\* pqos_init under the MSR interface was given a monitoring record by
\* discover_monitoring
MonPopulated ==
  /\ MsrInit /\ Made("discover_monitoring")
  /\ last.in.mon.ret = PQOS_RETVAL_OK

\* The record has an event of this type
HasEvent(mon, type) == \E i \in 1..Len(mon.events) : mon.events[i].type = type

\* C30: the monitoring record discover_monitoring delivers has as many events
\* as its array was sized for, none was refused by add_monitoring_event, the
\* events are in the order occupancy, total, local, remote bandwidth, IPC,
\* LLC misses, and the remote bandwidth event is there exactly when the total
\* and the local bandwidth events both are.
C30_EventsFillTheArrayInOrder ==
  MonPopulated
    => LET mon == Deref(last.in.mon.det)
       IN /\ mon.num_events = last.in.mon.sized
          /\ last.in.mon.dropped = 0
          /\ Len(mon.events) = mon.num_events
          /\ \A i, j \in 1..Len(mon.events) :
                i < j => Rank(mon.events[i].type) < Rank(mon.events[j].type)
          /\ HasEvent(mon, "PQOS_MON_EVENT_RMEM_BW")
                <=> /\ HasEvent(mon, "PQOS_MON_EVENT_TMEM_BW")
                    /\ HasEvent(mon, "PQOS_MON_EVENT_LMEM_BW")

\* All three event bits are set and both perf events are supported: the
\* record of the initialised library has the six events
C30_Witness ==
  /\ MonPopulated /\ last.ret = PQOS_RETVAL_OK
  /\ hw.cpuidf1.edx = 7
  /\ ipc_supported(hw.cpuida) /\ llc_miss_supported(hw.cpuida)
  /\ Deref(last.in.mon.det).num_events = 6
  /\ Deref(m_cap).capabilities[1].u = Deref(last.in.mon.det)

(***************************************************************************)
(* The class count of the allocation records                               *)
(***************************************************************************)
\* C31: every L3 and every L2 allocation record of the registry has
\* num_classes > 0, after discovery and after any run of the CDP hooks.
C31_ClassCountIsPositive ==
  \A type \in {PQOS_CAP_TYPE_L3CA, PQOS_CAP_TYPE_L2CA} :
    CapOf(m_cap, type) # NULL => Deref(CapOf(m_cap, type)).num_classes > 0

(***************************************************************************)
(* Monitoring without an RDT event                                         *)
(***************************************************************************)
\* discover_monitoring was called on a platform that passes both feature
\* gates (CPUID.0x7.0 ebx bit 12, CPUID.0xf.0 edx bit 1) and advertises none
\* of occupancy, total and local bandwidth in CPUID.0xf.1
NoRdtEvent ==
  /\ MsrInit /\ Made("discover_monitoring")
  /\ Bit(hw.cpuid7_ebx, 12) = 1 /\ Bit(hw.cpuidf0.edx, 1) = 1
  /\ hw.cpuidf1.edx % 8 = 0

\* C32: with both gates passed and no RDT event advertised,
\* discover_monitoring returns ERROR whatever the performance counters
\* support, no allocation probe is run, and pqos_init fails and leaves the
\* library uninitialised, allocation technologies present or not.
C32_NoRdtEventIsAnError ==
  NoRdtEvent
    => /\ MadeWith("discover_monitoring", PQOS_RETVAL_ERROR)
       /\ ~Made("discover_alloc_l3") /\ ~Made("discover_alloc_l2")
       /\ ~Made("discover_alloc_mba")
       /\ last.ret # PQOS_RETVAL_OK
       /\ m_init_done = 0 /\ m_cap = NULL

\* The platform advertises L3 CAT, L2 CAT and MBA and supports both perf
\* events, and pqos_init failed on its missing RDT events
C32_Witness ==
  /\ NoRdtEvent
  /\ Bit(hw.cpuid7_ebx, 15) = 1 /\ hw.cpuid10_ebx = 14
  /\ ipc_supported(hw.cpuida) /\ llc_miss_supported(hw.cpuida)
  /\ last.ret = PQOS_RETVAL_ERROR

(***************************************************************************)
(* The assertions of the hooks                                             *)
(***************************************************************************)
\* C33: whenever a hook was called in the initialised library, with one of
\* its three modes, every ASSERT of that hook held on entry.
C33_HookAssertionsHold ==
  (hooks.kind # "none" /\ m_init_done = 1)
    => IF hooks.kind = "mba"
       THEN mba_change_asserts([m_cap |-> hooks.pre], hooks.arg)
       ELSE cdp_change_asserts([m_cap |-> hooks.pre], hooks.arg)

(***************************************************************************)
(* CDP enabled only where it is supported                                  *)
(***************************************************************************)
\* C34: in every L3 and every L2 record of the registry cdp_on = 1 implies
\* cdp = 1, however the record was discovered and whatever hooks were called.
C34_CdpOnImpliesCdp ==
  \A type \in {PQOS_CAP_TYPE_L3CA, PQOS_CAP_TYPE_L2CA} :
    (CapOf(m_cap, type) # NULL /\ Deref(CapOf(m_cap, type)).cdp_on = 1)
      => Deref(CapOf(m_cap, type)).cdp = 1

(***************************************************************************)
(* The life of the lock among the threads of a process                     *)
(***************************************************************************)
\* Thread t makes a step of _pqos_api_init that creates the lock (open,
\* pthread_mutex_init) or of _pqos_api_exit that tears it down (close,
\* pthread_mutex_destroy)
CreatesOrTearsDown(t) ==
  /\ thr[t].pc \in {"api_init_open", "api_init_mutex", "exit_close", "exit_destroy"}
  /\ thr'[t] # thr[t]

\* Thread u holds the lock: it has taken both tiers, neither primitive
\* failed, and it has given back neither
HoldsLock(u) ==
  thr[u].pc \in {"locked", "init_unwind", "lockf_unlock"} /\ ~thr[u].err

\* Thread u is blocked in _pqos_api_lock: in lockf() on the open lock file
\* that another process has locked, or in pthread_mutex_lock() on the locked
\* mutex
WaitsForLock(u) ==
  \/ /\ thr[u].pc = "lockf"
     /\ proc[ProcOf(u)].m_apilock \in proc[ProcOf(u)].lock_fds
     /\ OtherHolds(ProcOf(u))
  \/ thr[u].pc = "mutex_lock" /\ proc[ProcOf(u)].m_apilock_mutex = "locked"

\* The step of thread t tears down a lock that exists: the file it closes is
\* open and the mutex it destroys is initialised
TearsDownOnce(t) ==
  /\ thr[t].pc = "exit_close"
       => proc[ProcOf(t)].m_apilock \in proc[ProcOf(t)].lock_fds
  /\ thr[t].pc = "exit_destroy" => proc[ProcOf(t)].m_apilock_mutex # "invalid"

\* C35: no thread creates or tears down the lock while another thread of its
\* process holds it or waits for it, and what is torn down is a lock that
\* was created and not torn down since (as long as no lock primitive has
\* failed and none was used on a mutex that is not in a state to be used).
C35_LockOutlivesItsUsers ==
  [][(\A t \in DOMAIN thr : ~thr[t].ub /\ ~thr[t].err)
       => \A t \in DOMAIN thr :
            CreatesOrTearsDown(t)
              => /\ TearsDownOnce(t)
                 /\ \A u \in DOMAIN thr :
                      (u # t /\ ProcOf(u) = ProcOf(t))
                        => ~HoldsLock(u) /\ ~WaitsForLock(u)]_vars

(***************************************************************************)
(* Two concurrent initialisations                                          *)
(***************************************************************************)
\* Thread t is in pqos_init past the guard of _pqos_api_init
PassedGuard(t) ==
  /\ thr[t].op = "pqos_init"
  /\ thr[t].pc \notin {"idle", "api_init_guard"}

\* C36: of the threads of a process that are in pqos_init at the same time at
\* most one is past the `m_apilock != -1` guard of _pqos_api_init, so the
\* lock file is open once and one call at most initialises.
C36_OneInitPassesTheGuard ==
  \A t, u \in DOMAIN thr :
    (t # u /\ ProcOf(t) = ProcOf(u)) => ~(PassedGuard(t) /\ PassedGuard(u))

(***************************************************************************)
(* Termination of the calls                                                *)
(***************************************************************************)
\* A thread has used a mutex in a state in which the behaviour of the
\* primitive is undefined, or has dereferenced a NULL registry
SomeUb == \E u \in DOMAIN thr : thr[u].ub

\* No step of a call is enabled: every thread is outside a call or blocked.
\* From such a state nothing changes unless a thread starts a new call,
\* which no scheduling obliges it to.
NoStepEnabled == \A t \in DOMAIN thr : thr[t].pc = "idle" \/ Blocked(t)

\* C37: every call of pqos_init, pqos_fini and pqos_cap_get returns under
\* fair scheduling: as long as no behaviour is undefined, there is no state
\* in which a thread is inside a call and no step of any call is enabled.
C37_EveryCallReturns ==
  (NoStepEnabled /\ ~SomeUb) => \A t \in DOMAIN thr : thr[t].pc = "idle"
====
